---- MODULE Spec2Model ----
(***************************************************************************)
(* Concept Activation Network: the ConceptNetwork class of                 *)
(* concept-network.js as a state machine.  One action per public method;   *)
(* a thrown Error is recorded in ret and leaves whatever the code had      *)
(* already written.  Numbers are fixed point: weights, activations and     *)
(* rates are integers in units of 1/Scale.                                 *)
(***************************************************************************)
EXTENDS Integers, Sequences, FiniteSets, TLC

VARIABLES
    nodes,              \* this.nodes: concept id -> ConceptNode
    nodeOrder,          \* insertion order of the this.nodes Map
    activationHistory,  \* this.activationHistory
    iterationCount,     \* this.iterationCount
    params,             \* this.params
    call,               \* the last method call and its arguments
    ret,                \* what that call returned, or the error it threw
    pre,                \* the fields of the network and the manager before that call
    steps,              \* number of calls made so far
    sessions,           \* SessionManager this.sessions: session id -> session
    now,                \* the time new Date() gives, in hours
    removed             \* the ids of the sessions deleted or cleaned up so far

vars == <<nodes, nodeOrder, activationHistory, iterationCount, params, call, ret, pre, steps,
          sessions, now, removed>>

\* The variables of the session manager.
managerVars == <<sessions, now, removed>>

\* ---------------------------------------------------------------- bounds

\* Calls per behaviour.
MaxSteps == 4

\* Calls per behaviour that starts from a built graph.
MaxActivationSteps == 3

\* Calls per behaviour with runs of the convergence loop.
MaxRunSteps == 2

\* setParameters calls per behaviour that makes no other call.
MaxParameterCalls == 3

\* Calls per behaviour with ranking queries.
MaxQuerySteps == 3

\* Calls per behaviour with ranking and pattern queries on a graph built in
\* any order.
MaxAnalysisSteps == 2

\* Calls per behaviour of the activation engine with seeds of any size.
MaxEngineSteps == 3

\* Calls per behaviour of the set_parameters tool.
MaxToolSteps == 3

\* createSession calls per behaviour that makes no other call.
MaxCreateCalls == 1

\* Steps of a behaviour of the session manager with its clock.
MaxSessionSteps == 5

\* Longest selection given to setInitialActivation.
MaxSelection == 2

\* ---------------------------------------------------------------- numbers

\* Fixed point: the number 1 of the source is Scale, and x stands for x/Scale.
Scale == 100

\* ---------------------------------------------------------------- inputs

\* JS null / an omitted argument.
NULL == "null"

\* The empty string: a string, and falsy.
EmptyId == ""

\* Ids the caller supplies, and the ids uuidv4() can return.
CallerIds == {"a", "b"}
Uuids == {"u1"}
NodeIds == CallerIds \cup Uuids

\* Values of the id argument of addConcept.
IdArgs == CallerIds \cup {EmptyId, NULL}

\* (label, category) arguments of addConcept.
LabelCategoryArgs == {<<"x", NULL>>, <<"y", "k">>}

\* Weight arguments: below 0, inside [0,1], above 1.
WeightArgs == {-50, 30, 150}

\* Ids a selection can name: the caller's ids, and one that is never a node.
SelectionIds == CallerIds \cup {"zz"}

\* Seed values.
SeedArgs == {40, 100}

\* An optional number argument: <<>> is null (omitted), <<x>> is the number x.
NoNumber == <<>>
Number(x) == <<x>>

\* decayRate arguments of spreadActivation: omitted, or 0.5.
DecayArgs == {NoNumber, Number(50)}

\* ---------------------------------------------------------------- helpers

Min(x, y) == IF x <= y THEN x ELSE y
Max(x, y) == IF x >= y THEN x ELSE y
Abs(x) == IF x >= 0 THEN x ELSE -x

\* The empty Map.
EmptyMap == [k \in {} |-> 0]

\* Map.set(key, value).
MapSet(m, key, value) == [k \in DOMAIN m \cup {key} |-> IF k = key THEN value ELSE m[k]]

\* Map.delete(key): the map without key.
MapDelete(m, key) == [k \in DOMAIN m \ {key} |-> m[k]]

\* Insertion order after Map.set(key, ...): a new key goes last, an old one stays.
OrderSet(order, key) ==
    IF \E i \in 1..Len(order) : order[i] = key THEN order ELSE Append(order, key)

\* Insertion order after Map.delete(key).
OrderDelete(order, key) == SelectSeq(order, LAMBDA k : k # key)

\* Sequences over S of length at most n.
SeqsUpTo(S, n) == UNION {[1..m -> S] : m \in 0..n}

\* ---------------------------------------------------------------- ConceptNode

\* new ConceptNode(id, label, category)
ConceptNode(id, label, category) ==
    [id |-> id, label |-> label, category |-> category, connections |-> EmptyMap,
     activation |-> 0, prevActivation |-> 0, metadata |-> EmptyMap]

\* Mutant of NodeAddConnection: the weight is added to the one already stored.
NodeAddConnectionAdditive(node, targetId, weight) ==
    [node EXCEPT !.connections =
        MapSet(node.connections, targetId,
               (IF targetId \in DOMAIN node.connections THEN node.connections[targetId] ELSE 0)
               + weight)]

\* node.addConnection(targetId, weight)
NodeAddConnection(node, targetId, weight) ==
    [node EXCEPT !.connections = MapSet(node.connections, targetId, weight)]

\* node.removeConnection(targetId): the node afterwards
NodeRemoveConnection(node, targetId) ==
    [node EXCEPT !.connections = MapDelete(node.connections, targetId)]

\* Mutant of UpdateActivation: the node also loses its connections.
UpdateActivationDroppingConnections(node, newValue) ==
    [node EXCEPT !.prevActivation = node.activation, !.activation = newValue,
                 !.connections = EmptyMap]

\* node.updateActivation(newValue)
UpdateActivation(node, newValue) ==
    [node EXCEPT !.prevActivation = node.activation, !.activation = newValue]

\* node.getActivationDelta()
GetActivationDelta(node) == Abs(node.activation - node.prevActivation)

\* ---------------------------------------------------------------- ConceptNetwork

\* The default parameters of the constructor.
DefaultParams ==
    [activationThreshold |-> 70, decayRate |-> 10, maxIterations |-> 5,
     convergenceThreshold |-> 1]

\* Before a call: what the call's postcondition is compared against.
Snapshot ==
    [nodes |-> nodes, nodeOrder |-> nodeOrder,
     activationHistory |-> activationHistory, iterationCount |-> iterationCount,
     params |-> params, sessions |-> sessions, now |-> now, removed |-> removed]

\* A call that returned value v.
Returned(v) == [kind |-> "return", value |-> v]

\* A call that threw the error named e.
Threw(e) == [kind |-> "throw", value |-> e]

\* id || uuidv4(): a falsy id (null, undefined, "") is replaced by a uuid, which
\* is an id no node has.
ConceptIdFor(ns, id) == IF id \in {NULL, EmptyId} THEN Uuids \ DOMAIN ns ELSE {id}

\* Mutant of GetConceptThrows: a lookup that never throws.
GetConceptNeverThrows(ns, conceptId) == FALSE

\* getConcept(conceptId) throws: this.nodes.get(conceptId) is undefined.
GetConceptThrows(ns, conceptId) == conceptId \notin DOMAIN ns

\* Mutant of SafeWeight: the lower clamp is missing.
SafeWeightUpperOnly(weight) == Min(Scale, weight)

\* Math.max(0, Math.min(1, weight))
SafeWeight(weight) == Max(0, Min(Scale, weight))

\* addConcept past its collision check: this.nodes.set(conceptId, node).
AddConceptNodes(ns, conceptId, label, category) ==
    MapSet(ns, conceptId, ConceptNode(conceptId, label, category))

\* Mutant of RemoveConnectionsTo: the loop is missing.
RemoveConnectionsToNothing(ns, conceptId) == ns

\* The loop of removeConcept: node.removeConnection(conceptId) on every node.
RemoveConnectionsTo(ns, conceptId) ==
    [k \in DOMAIN ns |-> NodeRemoveConnection(ns[k], conceptId)]

\* Mutant of RemoveConceptNodes: a node that pointed at the concept loses every
\* connection, not only that one.
RemoveConceptNodesClearing(ns, conceptId) ==
    MapDelete([k \in DOMAIN ns |->
                  IF conceptId \in DOMAIN ns[k].connections
                  THEN [ns[k] EXCEPT !.connections = EmptyMap]
                  ELSE ns[k]],
              conceptId)

\* removeConcept of a concept that is present: the loop, then this.nodes.delete.
RemoveConceptNodes(ns, conceptId) ==
    MapDelete(RemoveConnectionsTo(ns, conceptId), conceptId)

\* addConnection past its two getConcept calls.
AddConnectionNodes(ns, sourceId, targetId, weight, bidirectional) ==
    LET safeWeight == SafeWeight(weight)
        withPrimary == [ns EXCEPT ![sourceId] = NodeAddConnection(@, targetId, safeWeight)]
    IN  IF bidirectional
        THEN [withPrimary EXCEPT ![targetId] = NodeAddConnection(@, sourceId, safeWeight)]
        ELSE withPrimary

\* What removeConnection returns: connections.delete(targetId) of the source node,
\* false when there is no source node.
RemoveConnectionSuccess(ns, sourceId, targetId) ==
    sourceId \in DOMAIN ns /\ targetId \in DOMAIN ns[sourceId].connections

\* Mutant of RemoveConnectionNodes: the reverse edge goes only when the primary
\* one did.
RemoveConnectionNodesIfSuccess(ns, sourceId, targetId, bidirectional) ==
    LET success == sourceId \in DOMAIN ns /\ targetId \in DOMAIN ns[sourceId].connections
        afterPrimary == IF sourceId \in DOMAIN ns
                        THEN [ns EXCEPT ![sourceId] = NodeRemoveConnection(@, targetId)]
                        ELSE ns
    IN  IF bidirectional /\ success /\ targetId \in DOMAIN ns
        THEN [afterPrimary EXCEPT ![targetId] = NodeRemoveConnection(@, sourceId)]
        ELSE afterPrimary

\* The nodes after removeConnection.
RemoveConnectionNodes(ns, sourceId, targetId, bidirectional) ==
    LET afterPrimary == IF sourceId \in DOMAIN ns
                        THEN [ns EXCEPT ![sourceId] = NodeRemoveConnection(@, targetId)]
                        ELSE ns
    IN  IF bidirectional /\ targetId \in DOMAIN ns
        THEN [afterPrimary EXCEPT ![targetId] = NodeRemoveConnection(@, sourceId)]
        ELSE afterPrimary

\* connectionCount of getNetworkSize()
RECURSIVE SumConnectionSizes(_, _)
SumConnectionSizes(ns, ids) ==
    IF ids = {} THEN 0
    ELSE LET k == CHOOSE k \in ids : TRUE
         IN  Cardinality(DOMAIN ns[k].connections) + SumConnectionSizes(ns, ids \ {k})

ConnectionCount(ns) == SumConnectionSizes(ns, DOMAIN ns)

addConcept(label, category, id) ==
    /\ steps < MaxSteps
    /\ \E conceptId \in ConceptIdFor(nodes, id) :
        /\ call' = [op |-> "addConcept", label |-> label, category |-> category, id |-> id]
        /\ pre' = Snapshot
        /\ steps' = steps + 1
        /\ UNCHANGED managerVars
        /\ IF conceptId \in DOMAIN nodes
           THEN /\ ret' = Threw("IdCollision")
                /\ UNCHANGED <<nodes, nodeOrder>>
           ELSE /\ nodes' = AddConceptNodes(nodes, conceptId, label, category)
                /\ nodeOrder' = OrderSet(nodeOrder, conceptId)
                /\ ret' = Returned(conceptId)
        /\ UNCHANGED <<activationHistory, iterationCount, params>>

removeConcept(conceptId) ==
    /\ steps < MaxSteps
    /\ call' = [op |-> "removeConcept", conceptId |-> conceptId]
    /\ pre' = Snapshot
    /\ steps' = steps + 1
    /\ UNCHANGED managerVars
    /\ IF conceptId \notin DOMAIN nodes
       THEN /\ ret' = Returned(FALSE)
            /\ UNCHANGED <<nodes, nodeOrder>>
       ELSE /\ nodes' = RemoveConceptNodes(nodes, conceptId)
            /\ nodeOrder' = OrderDelete(nodeOrder, conceptId)
            /\ ret' = Returned(TRUE)
    /\ UNCHANGED <<activationHistory, iterationCount, params>>

addConnection(sourceId, targetId, weight, bidirectional) ==
    /\ steps < MaxSteps
    /\ call' = [op |-> "addConnection", sourceId |-> sourceId, targetId |-> targetId,
                weight |-> weight, bidirectional |-> bidirectional]
    /\ pre' = Snapshot
    /\ steps' = steps + 1
    /\ UNCHANGED managerVars
    /\ IF GetConceptThrows(nodes, sourceId) \/ GetConceptThrows(nodes, targetId)
       THEN /\ ret' = Threw("NotFound")
            /\ UNCHANGED nodes
       ELSE /\ nodes' = AddConnectionNodes(nodes, sourceId, targetId, weight, bidirectional)
            /\ ret' = Returned(NULL)
    /\ UNCHANGED <<nodeOrder, activationHistory, iterationCount, params>>

removeConnection(sourceId, targetId, bidirectional) ==
    /\ steps < MaxSteps
    /\ call' = [op |-> "removeConnection", sourceId |-> sourceId, targetId |-> targetId,
                bidirectional |-> bidirectional]
    /\ pre' = Snapshot
    /\ steps' = steps + 1
    /\ UNCHANGED managerVars
    /\ nodes' = RemoveConnectionNodes(nodes, sourceId, targetId, bidirectional)
    /\ ret' = Returned(RemoveConnectionSuccess(nodes, sourceId, targetId))
    /\ UNCHANGED <<nodeOrder, activationHistory, iterationCount, params>>

\* ---------------------------------------------------------------- activation

\* A selection argument of setInitialActivation: an Array of ids; an object
\* mapping ids to values; a value that is neither (a number, a string,
\* undefined); or null.
ListSelections == {[kind |-> "list", ids |-> ids] : ids \in SeqsUpTo(SelectionIds, MaxSelection)}
MappingSelections ==
    {[kind |-> "mapping", values |-> m] :
        m \in UNION {[keys -> SeedArgs] : keys \in SUBSET SelectionIds}}
MalformedSelections == {[kind |-> "other"], [kind |-> "null"]}
Selections == ListSelections \cup MappingSelections \cup MalformedSelections

\* Object.entries(object): the (key, value) pairs of an object, each key once.
RECURSIVE ObjectEntries(_)
ObjectEntries(object) ==
    IF DOMAIN object = {} THEN <<>>
    ELSE LET key == CHOOSE k \in DOMAIN object : TRUE
         IN  <<<<key, object[key]>>>> \o ObjectEntries(MapDelete(object, key))

\* The (id, value) pairs the seeding loop visits, in order.
SeedEntries(concepts, activationValue) ==
    IF concepts.kind = "list"
    THEN [i \in 1..Len(concepts.ids) |-> <<concepts.ids[i], activationValue>>]
    ELSE IF concepts.kind = "mapping" THEN ObjectEntries(concepts.values)
    ELSE <<>>

\* The first loop of setInitialActivation: node.updateActivation(0.0) on every node.
ResetActivations(ns) == [k \in DOMAIN ns |-> UpdateActivation(ns[k], 0)]

\* Mutant of SeedActivations: the loop ends at the first id that is no node.
RECURSIVE SeedActivationsStopAtUnknown(_, _)
SeedActivationsStopAtUnknown(ns, entries) ==
    IF entries = <<>> THEN ns
    ELSE LET id == Head(entries)[1]
             value == Head(entries)[2]
         IN  IF id \in DOMAIN ns
             THEN SeedActivationsStopAtUnknown(
                      [ns EXCEPT ![id] = UpdateActivation(@, value)], Tail(entries))
             ELSE ns

\* The seeding loop: updateActivation(value) on each named node that exists.
RECURSIVE SeedActivations(_, _)
SeedActivations(ns, entries) ==
    IF entries = <<>> THEN ns
    ELSE LET id == Head(entries)[1]
             value == Head(entries)[2]
         IN  SeedActivations(
                 IF id \in DOMAIN ns
                 THEN [ns EXCEPT ![id] = UpdateActivation(@, value)]
                 ELSE ns,
                 Tail(entries))

\* The snapshot recordActivationState takes: one record per node, in Map order.
ActivationSnapshot(ns, order) ==
    [i \in 1..Len(order) |->
        [id |-> order[i], label |-> ns[order[i]].label,
         activation |-> ns[order[i]].activation, category |-> ns[order[i]].category]]

\* Mutant of RecordActivationState: the new entry takes the place of the last one.
RecordActivationStateOverLast(history, count, ns, order) ==
    (IF history = <<>> THEN history ELSE SubSeq(history, 1, Len(history) - 1))
    \o <<[iteration |-> count, activations |-> ActivationSnapshot(ns, order)]>>

\* recordActivationState(): the history after the push (the timestamp is left out).
RecordActivationState(history, count, ns, order) ==
    Append(history, [iteration |-> count, activations |-> ActivationSnapshot(ns, order)])

\* sigmoid(x) = 1 / (1 + Math.exp(-x)) on the fixed-point grid.  x is in units of
\* 1/Scale^2 and the result in units of 1/Scale.  SigmoidSteps[k] is the least x
\* whose sigmoid rounds to (k+1)/Scale or more.  In IEEE doubles the quotient is
\* exactly 1 once exp(-x) <= 2^-53 and exactly 0 once exp(-x) overflows; between
\* the two it is strictly inside (0,1), so the grid value is kept inside too.
SigmoidSteps ==
    <<-41845, -36635, -33167, -30550, -28438, -26661, -25123, -23762, -22540, -21428,
      -20406, -19459, -18574, -17743, -16959, -16214, -15505, -14828, -14178, -13553,
      -12950, -12367, -11802, -11254, -10721, -10201, -9694, -9197, -8712, -8236,
      -7768, -7308, -6856, -6410, -5971, -5537, -5108, -4683, -4263, -3846,
      -3433, -3022, -2614, -2208, -1804, -1402, -1000, -600, -200, 201,
      601, 1001, 1403, 1805, 2209, 2615, 3023, 3434, 3847, 4264,
      4684, 5109, 5538, 5972, 6411, 6857, 7309, 7769, 8237, 8713,
      9198, 9695, 10202, 10722, 11255, 11803, 12368, 12951, 13554, 14179,
      14829, 15506, 16215, 16960, 17744, 18575, 19460, 20407, 21429, 22541,
      23763, 25124, 26662, 28439, 30551, 33168, 36636, 41846>>
SigmoidOneFrom == 367369
SigmoidZeroBelow == -7097827

\* Mutant of Sigmoid: the sum is passed on without squashing.
SigmoidNotSquashing(x) == x \div Scale

Sigmoid(x) ==
    IF x >= SigmoidOneFrom THEN Scale
    ELSE IF x < SigmoidZeroBelow THEN 0
    ELSE 1 + Cardinality({k \in 1..Len(SigmoidSteps) : x >= SigmoidSteps[k]})

\* The sum, over the nodes in sources, of the source's activation times the
\* weight of its edge to the node.
RECURSIVE SumFromSources(_, _, _)
SumFromSources(ns, node, sources) ==
    IF sources = {} THEN 0
    ELSE LET sourceId == CHOOSE s \in sources : TRUE
         IN  ns[sourceId].activation * ns[sourceId].connections[node.id]
             + SumFromSources(ns, node, sources \ {sourceId})

\* Mutant of IncomingActivation: the sum runs over the nodes that point to the
\* node rather than over the nodes it points to.
IncomingActivationFromSources(ns, node, targets) ==
    SumFromSources(ns, node, {s \in DOMAIN ns : node.id \in DOMAIN ns[s].connections})

\* incomingActivation of a node: the sum, over its own connections whose target
\* exists, of the target's activation times the weight (units of 1/Scale^2).
RECURSIVE IncomingActivation(_, _, _)
IncomingActivation(ns, node, targets) ==
    IF targets = {} THEN 0
    ELSE LET connectedId == CHOOSE t \in targets : TRUE
         IN  (IF connectedId \in DOMAIN ns
              THEN ns[connectedId].activation * node.connections[connectedId]
              ELSE 0)
             + IncomingActivation(ns, node, targets \ {connectedId})

\* One pass that writes each new activation at once, so that nodes visited later
\* read it.
RECURSIVE InPlaceRound(_, _, _)
InPlaceRound(ns, ids, actualDecayRate) ==
    IF ids = {} THEN ns
    ELSE LET nodeId == CHOOSE k \in ids : TRUE
             node == ns[nodeId]
             incomingActivation == IncomingActivation(ns, node, DOMAIN node.connections)
             decayedActivation == node.activation * (Scale - actualDecayRate)
         IN  InPlaceRound(
                 [ns EXCEPT ![nodeId].activation = Sigmoid(decayedActivation + incomingActivation)],
                 ids \ {nodeId}, actualDecayRate)

\* Mutant of NewActivations: the values of an in-place pass.
NewActivationsInPlace(ns, actualDecayRate) ==
    LET after == InPlaceRound(ns, DOMAIN ns, actualDecayRate)
    IN  [nodeId \in DOMAIN ns |-> after[nodeId].activation]

\* newActivations of spreadActivation: every value from the activations before
\* the round.
NewActivations(ns, actualDecayRate) ==
    [nodeId \in DOMAIN ns |->
        LET node == ns[nodeId]
            incomingActivation == IncomingActivation(ns, node, DOMAIN node.connections)
            decayedActivation == node.activation * (Scale - actualDecayRate)
        IN  Sigmoid(decayedActivation + incomingActivation)]

\* The second loop of spreadActivation.
CommitActivations(ns, newActivations) ==
    [nodeId \in DOMAIN ns |-> UpdateActivation(ns[nodeId], newActivations[nodeId])]

\* Mutant of SumDeltas: the sum of the signed changes.
RECURSIVE SumSignedDeltas(_, _)
SumSignedDeltas(ns, ids) ==
    IF ids = {} THEN 0
    ELSE LET k == CHOOSE k \in ids : TRUE
         IN  (ns[k].activation - ns[k].prevActivation) + SumSignedDeltas(ns, ids \ {k})

\* totalDelta: the sum of getActivationDelta() over the nodes.
RECURSIVE SumDeltas(_, _)
SumDeltas(ns, ids) ==
    IF ids = {} THEN 0
    ELSE LET k == CHOOSE k \in ids : TRUE
         IN  GetActivationDelta(ns[k]) + SumDeltas(ns, ids \ {k})

\* Mutant of setInitialActivation: the history and the counter are not reset.
setInitialActivationKeepingHistory(concepts, activationValue) ==
    /\ steps < MaxSteps
    /\ call' = [op |-> "setInitialActivation", concepts |-> concepts,
                activationValue |-> activationValue]
    /\ pre' = Snapshot
    /\ steps' = steps + 1
    /\ UNCHANGED managerVars
    /\ IF concepts.kind = "null"
       THEN /\ nodes' = ResetActivations(nodes)
            /\ ret' = Threw("TypeError")
            /\ UNCHANGED <<activationHistory, iterationCount>>
       ELSE /\ nodes' = SeedActivations(ResetActivations(nodes),
                                        SeedEntries(concepts, activationValue))
            /\ activationHistory' =
                   RecordActivationState(activationHistory, iterationCount, nodes', nodeOrder)
            /\ iterationCount' = iterationCount + 1
            /\ ret' = Returned(NULL)
    /\ UNCHANGED <<nodeOrder, params>>

setInitialActivation(concepts, activationValue) ==
    /\ steps < MaxSteps
    /\ call' = [op |-> "setInitialActivation", concepts |-> concepts,
                activationValue |-> activationValue]
    /\ pre' = Snapshot
    /\ steps' = steps + 1
    /\ UNCHANGED managerVars
    /\ IF concepts.kind = "null"
       THEN \* typeof null is 'object': Object.entries(null) throws after the reset loop
            /\ nodes' = ResetActivations(nodes)
            /\ ret' = Threw("TypeError")
            /\ UNCHANGED <<activationHistory, iterationCount>>
       ELSE /\ nodes' = SeedActivations(ResetActivations(nodes),
                                        SeedEntries(concepts, activationValue))
            /\ activationHistory' = RecordActivationState(<<>>, 0, nodes', nodeOrder)
            /\ iterationCount' = 1
            /\ ret' = Returned(NULL)
    /\ UNCHANGED <<nodeOrder, params>>

spreadActivation(decayRate) ==
    /\ steps < MaxSteps
    /\ call' = [op |-> "spreadActivation", decayRate |-> decayRate]
    /\ pre' = Snapshot
    /\ steps' = steps + 1
    /\ UNCHANGED managerVars
    /\ LET actualDecayRate == IF decayRate # NoNumber THEN decayRate[1] ELSE params.decayRate
       IN  nodes' = CommitActivations(nodes, NewActivations(nodes, actualDecayRate))
    /\ activationHistory' =
           RecordActivationState(activationHistory, iterationCount, nodes', nodeOrder)
    /\ iterationCount' = iterationCount + 1
    /\ ret' = Returned([iteration |-> iterationCount' - 1,
                        totalDelta |-> SumDeltas(nodes', DOMAIN nodes')])
    /\ UNCHANGED <<nodeOrder, params>>

\* ---------------------------------------------------------------- parameters

\* The keys of the configuration.
ParamKeys == DOMAIN DefaultParams

\* Mutant of MergeParams: the keys the argument leaves out go back to their defaults.
MergeParamsOntoDefaults(ps, newParams) ==
    [k \in DOMAIN ps \cup DOMAIN newParams |->
        IF k \in DOMAIN newParams THEN newParams[k] ELSE DefaultParams[k]]

\* {...this.params, ...params}: the keys of both, the argument's value winning.
MergeParams(ps, newParams) ==
    [k \in DOMAIN ps \cup DOMAIN newParams |->
        IF k \in DOMAIN newParams THEN newParams[k] ELSE ps[k]]

setParameters(newParams) ==
    /\ steps < MaxSteps
    /\ call' = [op |-> "setParameters", params |-> newParams]
    /\ pre' = Snapshot
    /\ steps' = steps + 1
    /\ UNCHANGED managerVars
    /\ params' = MergeParams(params, newParams)
    /\ ret' = Returned(NULL)
    /\ UNCHANGED <<nodes, nodeOrder, activationHistory, iterationCount>>

\* ---------------------------------------------------------------- convergence loop

\* options.x || this.params.x for a numeric option: an omitted option and the
\* number 0 are both falsy and give the configured value.
OrDefault(option, configured) ==
    IF option # NoNumber /\ option[1] # 0 THEN option[1] ELSE configured

\* config of runUntilConvergence.
EffectiveConfig(options, ps) ==
    [maxIterations |-> OrDefault(options.maxIterations, ps.maxIterations),
     convergenceThreshold |-> OrDefault(options.convergenceThreshold, ps.convergenceThreshold),
     decayRate |-> OrDefault(options.decayRate, ps.decayRate)]

\* Infinity, the totalDelta before the first round: no number, above every number.
Infinity == <<>>

\* totalDelta > threshold and totalDelta <= threshold, totalDelta being Infinity
\* or a number.
Exceeds(totalDelta, threshold) == totalDelta = Infinity \/ totalDelta[1] > threshold
AtMost(totalDelta, threshold) == totalDelta # Infinity /\ totalDelta[1] <= threshold

\* What one spreadActivation(decayRate) call with a number as argument does to
\* the network, and the totalDelta it returns.
SpreadActivationResult(ns, history, count, order, actualDecayRate) ==
    LET after == CommitActivations(ns, NewActivations(ns, actualDecayRate))
    IN  [nodes |-> after,
         activationHistory |-> RecordActivationState(history, count, after, order),
         iterationCount |-> count + 1,
         totalDelta |-> SumDeltas(after, DOMAIN after)]

\* Mutant of RunRounds: the loop test is iteration <= maxIterations.
RECURSIVE RunRoundsOneMore(_, _, _)
RunRoundsOneMore(run, config, order) ==
    IF run.iteration <= config.maxIterations
       /\ Exceeds(run.totalDelta, config.convergenceThreshold)
    THEN LET result == SpreadActivationResult(run.nodes, run.activationHistory,
                                              run.iterationCount, order, config.decayRate)
         IN  RunRoundsOneMore(
                 [nodes |-> result.nodes,
                  activationHistory |-> result.activationHistory,
                  iterationCount |-> result.iterationCount,
                  iteration |-> run.iteration + 1,
                  totalDelta |-> Number(result.totalDelta)],
                 config, order)
    ELSE run

\* Mutant of RunRounds: the loop runs to maxIterations whatever the totalDelta.
RECURSIVE RunRoundsToTheBound(_, _, _)
RunRoundsToTheBound(run, config, order) ==
    IF run.iteration < config.maxIterations
    THEN LET result == SpreadActivationResult(run.nodes, run.activationHistory,
                                              run.iterationCount, order, config.decayRate)
         IN  RunRoundsToTheBound(
                 [nodes |-> result.nodes,
                  activationHistory |-> result.activationHistory,
                  iterationCount |-> result.iterationCount,
                  iteration |-> run.iteration + 1,
                  totalDelta |-> Number(result.totalDelta)],
                 config, order)
    ELSE run

\* The while loop of runUntilConvergence, from the loop state `run` to the loop
\* state at exit.
RECURSIVE RunRounds(_, _, _)
RunRounds(run, config, order) ==
    IF run.iteration < config.maxIterations
       /\ Exceeds(run.totalDelta, config.convergenceThreshold)
    THEN LET result == SpreadActivationResult(run.nodes, run.activationHistory,
                                              run.iterationCount, order, config.decayRate)
         IN  RunRounds(
                 [nodes |-> result.nodes,
                  activationHistory |-> result.activationHistory,
                  iterationCount |-> result.iterationCount,
                  iteration |-> run.iteration + 1,
                  totalDelta |-> Number(result.totalDelta)],
                 config, order)
    ELSE run

\* The loop state at exit of a runUntilConvergence call with the given config.
RunUntilConvergenceExit(ns, history, count, order, config) ==
    RunRounds([nodes |-> ns, activationHistory |-> history, iterationCount |-> count,
               iteration |-> 0, totalDelta |-> Infinity],
              config, order)

\* The object runUntilConvergence returns.
ConvergenceResult(exit, config) ==
    [converged |-> AtMost(exit.totalDelta, config.convergenceThreshold),
     iterations |-> exit.iteration,
     finalDelta |-> exit.totalDelta]

runUntilConvergence(options) ==
    /\ steps < MaxSteps
    /\ call' = [op |-> "runUntilConvergence", options |-> options]
    /\ pre' = Snapshot
    /\ steps' = steps + 1
    /\ UNCHANGED managerVars
    /\ LET config == EffectiveConfig(options, params)
           exit == RunUntilConvergenceExit(nodes, activationHistory, iterationCount,
                                           nodeOrder, config)
       IN  /\ nodes' = exit.nodes
           /\ activationHistory' = exit.activationHistory
           /\ iterationCount' = exit.iterationCount
           /\ ret' = Returned(ConvergenceResult(exit, config))
    /\ UNCHANGED <<nodeOrder, params>>

\* ---------------------------------------------------------------- ranking

\* The limit of getTopActivatedConcepts when the caller gives none.
DefaultLimit == 10

\* Mutant of SortDescending: the ids stay in the order they came in.
SortDescendingNot(ns, ids) == ids

\* Mutant of SortDescending: ids of equal activation come out in the reverse of
\* the order they came in.
RECURSIVE SortDescendingTiesReversed(_, _)
SortDescendingTiesReversed(ns, ids) ==
    IF ids = <<>> THEN <<>>
    ELSE LET last == ids[Len(ids)]
             sorted == SortDescendingTiesReversed(ns, SubSeq(ids, 1, Len(ids) - 1))
             Above(id) == ns[id].activation > ns[last].activation
             AtMostLast(id) == ns[id].activation <= ns[last].activation
         IN  SelectSeq(sorted, Above) \o <<last>> \o SelectSeq(sorted, AtMostLast)

\* ids.sort((a, b) => b.activation - a.activation): by falling activation, ids of
\* equal activation staying in the order they came in (Array.prototype.sort is
\* stable).
RECURSIVE SortDescending(_, _)
SortDescending(ns, ids) ==
    IF ids = <<>> THEN <<>>
    ELSE LET last == ids[Len(ids)]
             sorted == SortDescending(ns, SubSeq(ids, 1, Len(ids) - 1))
             AtLeast(id) == ns[id].activation >= ns[last].activation
             Below(id) == ns[id].activation < ns[last].activation
         IN  SelectSeq(sorted, AtLeast) \o <<last>> \o SelectSeq(sorted, Below)

\* array.slice(0, limit) for an integer limit >= 0.
SliceTo(array, limit) == SubSeq(array, 1, Min(limit, Len(array)))

\* The array getTopActivatedConcepts returns.
TopActivatedConcepts(ns, order, limit, actualThreshold) ==
    LET Active(id) == ns[id].activation >= actualThreshold
        top == SliceTo(SortDescending(ns, SelectSeq(order, Active)), limit)
    IN  [i \in 1..Len(top) |->
            [id |-> ns[top[i]].id, label |-> ns[top[i]].label,
             activation |-> ns[top[i]].activation, category |-> ns[top[i]].category]]

getTopActivatedConcepts(limit, threshold) ==
    /\ steps < MaxSteps
    /\ call' = [op |-> "getTopActivatedConcepts", limit |-> limit, threshold |-> threshold]
    /\ pre' = Snapshot
    /\ steps' = steps + 1
    /\ UNCHANGED managerVars
    /\ LET actualLimit == IF limit # NoNumber THEN limit[1] ELSE DefaultLimit
           actualThreshold == IF threshold # NoNumber THEN threshold[1]
                              ELSE params.activationThreshold
       IN  ret' = Returned(TopActivatedConcepts(nodes, nodeOrder, actualLimit, actualThreshold))
    /\ UNCHANGED <<nodes, nodeOrder, activationHistory, iterationCount, params>>

\* ---------------------------------------------------------------- patterns

\* Mutant of IsActive: a node at the threshold does not count as active.
IsActiveAbove(node, actualThreshold) == node.activation > actualThreshold

\* node.activation >= actualThreshold
IsActive(node, actualThreshold) == node.activation >= actualThreshold

\* The elements of a set as a sequence, each once.  The order of a node's
\* connections Map is not part of the model: its keys are visited in this order.
RECURSIVE SetToSeq(_)
SetToSeq(S) ==
    IF S = {} THEN <<>>
    ELSE LET x == CHOOSE x \in S : TRUE IN <<x>> \o SetToSeq(S \ {x})

\* Mutant of ConnectedToQueue: no connected node is queued.
ConnectedToQueueNone(ns, currentNode, visited, actualThreshold) == <<>>

\* The ids the inner for loop pushes on the queue: the connections of the
\* current node that are not visited, are nodes of the graph and are active.
ConnectedToQueue(ns, currentNode, visited, actualThreshold) ==
    LET Queued(connectedId) ==
            /\ connectedId \notin visited
            /\ connectedId \in DOMAIN ns
            /\ IsActive(ns[connectedId], actualThreshold)
    IN  SelectSeq(SetToSeq(DOMAIN currentNode.connections), Queued)

\* The while loop of one traversal: from a queue, the visited set and the
\* pattern so far to the visited set and the pattern (a sequence of ids) when
\* the queue is empty.
RECURSIVE Traverse(_, _, _, _, _)
Traverse(ns, queue, visited, pattern, actualThreshold) ==
    IF queue = <<>> THEN [visited |-> visited, pattern |-> pattern]
    ELSE LET currentId == Head(queue)
         IN  IF currentId \in visited
             THEN Traverse(ns, Tail(queue), visited, pattern, actualThreshold)
             ELSE IF IsActive(ns[currentId], actualThreshold)
                  THEN Traverse(ns,
                                Tail(queue)
                                \o ConnectedToQueue(ns, ns[currentId],
                                                    visited \cup {currentId}, actualThreshold),
                                visited \cup {currentId},
                                Append(pattern, currentId),
                                actualThreshold)
                  ELSE Traverse(ns, Tail(queue), visited \cup {currentId}, pattern,
                                actualThreshold)

\* A rational number sum / count, and the order of two of them.
Average(sum, count) == [sum |-> sum, count |-> count]
AverageAtLeast(x, y) == x.sum * y.count >= y.sum * x.count

\* The pattern object pushed for a traversal (the generated patternId is left out).
RECURSIVE SumActivations(_, _)
SumActivations(ns, ids) ==
    IF ids = <<>> THEN 0 ELSE ns[Head(ids)].activation + SumActivations(ns, Tail(ids))

PatternOf(ns, pattern) ==
    [concepts |-> [i \in 1..Len(pattern) |->
                      [id |-> pattern[i], label |-> ns[pattern[i]].label,
                       activation |-> ns[pattern[i]].activation,
                       category |-> ns[pattern[i]].category]],
     averageActivation |-> Average(SumActivations(ns, pattern), Len(pattern))]

\* The outer for loop over activeNodes: the patterns in the order they are found.
RECURSIVE CollectPatterns(_, _, _, _, _)
CollectPatterns(ns, activeNodes, visited, patterns, actualThreshold) ==
    IF activeNodes = <<>> THEN patterns
    ELSE IF Head(activeNodes) \in visited
         THEN CollectPatterns(ns, Tail(activeNodes), visited, patterns, actualThreshold)
         ELSE LET traversal == Traverse(ns, <<Head(activeNodes)>>, visited, <<>>,
                                        actualThreshold)
              IN  CollectPatterns(ns, Tail(activeNodes), traversal.visited,
                                  IF Len(traversal.pattern) > 0
                                  THEN Append(patterns, PatternOf(ns, traversal.pattern))
                                  ELSE patterns,
                                  actualThreshold)

\* patterns.sort((a, b) => b.averageActivation - a.averageActivation), stable.
RECURSIVE SortPatterns(_)
SortPatterns(patterns) ==
    IF patterns = <<>> THEN <<>>
    ELSE LET last == patterns[Len(patterns)]
             sorted == SortPatterns(SubSeq(patterns, 1, Len(patterns) - 1))
             AtLeastLast(p) == AverageAtLeast(p.averageActivation, last.averageActivation)
             BelowLast(p) == ~AverageAtLeast(p.averageActivation, last.averageActivation)
         IN  SelectSeq(sorted, AtLeastLast) \o <<last>> \o SelectSeq(sorted, BelowLast)

\* The array identifyEmergentPatterns returns.
EmergentPatterns(ns, order, actualThreshold) ==
    LET Active(id) == IsActive(ns[id], actualThreshold)
    IN  SortPatterns(CollectPatterns(ns, SelectSeq(order, Active), {}, <<>>, actualThreshold))

identifyEmergentPatterns(threshold) ==
    /\ steps < MaxSteps
    /\ call' = [op |-> "identifyEmergentPatterns", threshold |-> threshold]
    /\ pre' = Snapshot
    /\ steps' = steps + 1
    /\ UNCHANGED managerVars
    /\ LET actualThreshold == IF threshold # NoNumber THEN threshold[1]
                              ELSE params.activationThreshold
       IN  ret' = Returned(EmergentPatterns(nodes, nodeOrder, actualThreshold))
    /\ UNCHANGED <<nodes, nodeOrder, activationHistory, iterationCount, params>>

\* ---------------------------------------------------------------- SessionManager

\* Values of uuidv4() for session ids; a value is never generated twice.
SessionIds == {"s1", "s2"}

\* new ConceptNetwork(): the fields of an empty network.
NewNetwork ==
    [nodes |-> EmptyMap, nodeOrder |-> <<>>, activationHistory |-> <<>>,
     iterationCount |-> 0, params |-> DefaultParams]

\* The weight addConnection takes when the caller gives none: 0.5.
DefaultWeight == 50

\* The state of the createSession loops: the network so far and the error
\* thrown, NULL while none was.
Building(network) == [network |-> network, error |-> NULL]
Failed(network, error) == [network |-> network, error |-> error]

\* network.addConcept(label, category, id) on the network being built.
NetworkAddConcept(network, label, category, id) ==
    LET conceptId == CHOOSE c \in ConceptIdFor(network.nodes, id) : TRUE
    IN  IF conceptId \in DOMAIN network.nodes
        THEN Failed(network, "IdCollision")
        ELSE Building([network EXCEPT
                         !.nodes = AddConceptNodes(@, conceptId, label, category),
                         !.nodeOrder = OrderSet(@, conceptId)])

\* network.addConnection(sourceId, targetId, weight): bidirectional by default,
\* weight 0.5 when connection.weight is undefined.
NetworkAddConnection(network, sourceId, targetId, weight) ==
    IF GetConceptThrows(network.nodes, sourceId) \/ GetConceptThrows(network.nodes, targetId)
    THEN Failed(network, "NotFound")
    ELSE Building([network EXCEPT
                     !.nodes = AddConnectionNodes(@, sourceId, targetId,
                                                  IF weight # NoNumber THEN weight[1]
                                                  ELSE DefaultWeight,
                                                  TRUE)])

\* The inner loop of createSession over conceptData.connections; a thrown error
\* ends it.
RECURSIVE AddDefaultConnections(_, _, _)
AddDefaultConnections(building, conceptId, connections) ==
    IF building.error # NULL \/ connections = <<>> THEN building
    ELSE AddDefaultConnections(
             NetworkAddConnection(building.network, conceptId,
                                  Head(connections).targetId, Head(connections).weight),
             conceptId, Tail(connections))

\* Mutant of AddDefaultConcepts: all concepts are added before any connection.
RECURSIVE AddDefaultConceptsOnly(_, _)
AddDefaultConceptsOnly(building, entries) ==
    IF building.error # NULL \/ entries = <<>> THEN building
    ELSE AddDefaultConceptsOnly(
             NetworkAddConcept(building.network, Head(entries)[2].label,
                               Head(entries)[2].category, Head(entries)[1]),
             Tail(entries))

RECURSIVE AddDefaultConnectionsOnly(_, _)
AddDefaultConnectionsOnly(building, entries) ==
    IF building.error # NULL \/ entries = <<>> THEN building
    ELSE AddDefaultConnectionsOnly(
             AddDefaultConnections(building, Head(entries)[1], Head(entries)[2].connections),
             Tail(entries))

AddDefaultConceptsFirst(building, entries) ==
    AddDefaultConnectionsOnly(AddDefaultConceptsOnly(building, entries), entries)

\* The outer loop of createSession over Object.entries(defaultConcepts): each
\* concept is added and then its connections; a thrown error ends it.  An entry
\* is <<conceptId, conceptData>>; conceptData.connections is a sequence, empty
\* when the property is absent.
RECURSIVE AddDefaultConcepts(_, _)
AddDefaultConcepts(building, entries) ==
    IF building.error # NULL \/ entries = <<>> THEN building
    ELSE LET conceptId == Head(entries)[1]
             conceptData == Head(entries)[2]
             added == NetworkAddConcept(building.network, conceptData.label,
                                        conceptData.category, conceptId)
         IN  AddDefaultConcepts(AddDefaultConnections(added, conceptId, conceptData.connections),
                                Tail(entries))

\* network.getNetworkSize()
NetworkSize(network) ==
    [nodeCount |-> Cardinality(DOMAIN network.nodes),
     connectionCount |-> ConnectionCount(network.nodes)]

\* createSession({name, defaultConcepts}); defaultConcepts is null or an object
\* given by its entries.
createSession(name, defaultConcepts) ==
    /\ steps < MaxSessionSteps
    /\ \E sessionId \in SessionIds \ (DOMAIN sessions \cup removed) :
        /\ call' = [op |-> "createSession", name |-> name,
                    defaultConcepts |-> defaultConcepts]
        /\ pre' = Snapshot
        /\ steps' = steps + 1
        /\ LET sessionName == IF name \notin {NULL, EmptyId} THEN name
                              ELSE "can-session-" \o sessionId
               built == IF defaultConcepts.kind = "object"
                        THEN AddDefaultConcepts(Building(NewNetwork), defaultConcepts.entries)
                        ELSE Building(NewNetwork)
           IN  IF built.error # NULL
               THEN /\ ret' = Threw(built.error)
                    /\ UNCHANGED sessions
               ELSE /\ sessions' = MapSet(sessions, sessionId,
                                          [id |-> sessionId, name |-> sessionName,
                                           network |-> built.network,
                                           createdAt |-> now, lastAccessed |-> now])
                    /\ ret' = Returned([sessionId |-> sessionId, name |-> sessionName,
                                        networkSize |-> NetworkSize(built.network),
                                        createdAt |-> now])
        /\ UNCHANGED <<nodes, nodeOrder, activationHistory, iterationCount, params,
                       now, removed>>

\* Mutant of TouchSession: the timestamp is left alone.
TouchSessionNot(ss, sessionId, time) == ss

\* session.lastAccessed = new Date()
TouchSession(ss, sessionId, time) == [ss EXCEPT ![sessionId].lastAccessed = time]

\* getSession(sessionId)
getSession(sessionId) ==
    /\ steps < MaxSessionSteps
    /\ call' = [op |-> "getSession", sessionId |-> sessionId]
    /\ pre' = Snapshot
    /\ steps' = steps + 1
    /\ IF sessionId \notin DOMAIN sessions
       THEN /\ ret' = Threw("SessionNotFound")
            /\ UNCHANGED sessions
       ELSE /\ sessions' = TouchSession(sessions, sessionId, now)
            /\ ret' = Returned(sessions'[sessionId])
    /\ UNCHANGED <<nodes, nodeOrder, activationHistory, iterationCount, params, now, removed>>

\* getNetwork(sessionId)
getNetwork(sessionId) ==
    /\ steps < MaxSessionSteps
    /\ call' = [op |-> "getNetwork", sessionId |-> sessionId]
    /\ pre' = Snapshot
    /\ steps' = steps + 1
    /\ IF sessionId \notin DOMAIN sessions
       THEN /\ ret' = Threw("SessionNotFound")
            /\ UNCHANGED sessions
       ELSE /\ sessions' = TouchSession(sessions, sessionId, now)
            /\ ret' = Returned(sessions[sessionId].network)
    /\ UNCHANGED <<nodes, nodeOrder, activationHistory, iterationCount, params, now, removed>>

\* ---------------------------------------------------------------- set_parameters tool

\* The defaults of the tool's input schema: z.number().default(...) for each key.
ToolDefaults ==
    [activationThreshold |-> 70, decayRate |-> 10, maxIterations |-> 5,
     convergenceThreshold |-> 1]

\* The arguments the handler receives: the schema fills in its default for
\* every key the caller left out.
ParseToolArgs(args) ==
    [k \in DOMAIN ToolDefaults |-> IF k \in DOMAIN args THEN args[k] ELSE ToolDefaults[k]]

\* The params object the handler builds: the keys that are not undefined.
ToolParams(parsed) == [k \in DOMAIN parsed |-> parsed[k]]

\* The set_parameters tool called with sessionId and the given number
\* arguments: getNetwork(sessionId), then network.setParameters(params).
setParametersTool(sessionId, args) ==
    /\ steps < MaxSessionSteps
    /\ call' = [op |-> "set_parameters", sessionId |-> sessionId, args |-> args]
    /\ pre' = Snapshot
    /\ steps' = steps + 1
    /\ IF sessionId \notin DOMAIN sessions
       THEN /\ ret' = Threw("SessionNotFound")
            /\ UNCHANGED sessions
       ELSE /\ sessions' =
                  [TouchSession(sessions, sessionId, now) EXCEPT
                     ![sessionId].network.params =
                         MergeParams(@, ToolParams(ParseToolArgs(args)))]
            /\ ret' = Returned([success |-> TRUE,
                                parameters |-> sessions'[sessionId].network.params])
    /\ UNCHANGED <<nodes, nodeOrder, activationHistory, iterationCount, params, now, removed>>

\* deleteSession(sessionId): Map.delete, which tells whether the key was there.
deleteSession(sessionId) ==
    /\ steps < MaxSessionSteps
    /\ call' = [op |-> "deleteSession", sessionId |-> sessionId]
    /\ pre' = Snapshot
    /\ steps' = steps + 1
    /\ sessions' = MapDelete(sessions, sessionId)
    /\ removed' = removed \cup ({sessionId} \cap DOMAIN sessions)
    /\ ret' = Returned(sessionId \in DOMAIN sessions)
    /\ UNCHANGED <<nodes, nodeOrder, activationHistory, iterationCount, params, now>>

\* The info object getAllSessions makes of a session.
SessionInfo(session) ==
    [sessionId |-> session.id, name |-> session.name, createdAt |-> session.createdAt,
     lastAccessed |-> session.lastAccessed, networkSize |-> NetworkSize(session.network)]

\* getAllSessions(): reads this.sessions directly, not through getSession.
getAllSessions ==
    /\ steps < MaxSessionSteps
    /\ call' = [op |-> "getAllSessions"]
    /\ pre' = Snapshot
    /\ steps' = steps + 1
    /\ ret' = Returned({SessionInfo(sessions[id]) : id \in DOMAIN sessions})
    /\ UNCHANGED <<nodes, nodeOrder, activationHistory, iterationCount, params>>
    /\ UNCHANGED managerVars

\* maxAgeMs = 24 * 60 * 60 * 1000, in the hours the clock counts.
DefaultMaxAge == 24

\* The sessions cleanupSessions deletes: age > maxAgeMs.
ExpiredSessions(ss, time, maxAge) == {id \in DOMAIN ss : time - ss[id].lastAccessed > maxAge}

\* cleanupSessions(maxAgeMs), called by a client or by the constructor's timer.
cleanupSessions(maxAgeMs) ==
    /\ steps < MaxSessionSteps
    /\ call' = [op |-> "cleanupSessions", maxAgeMs |-> maxAgeMs]
    /\ pre' = Snapshot
    /\ steps' = steps + 1
    /\ LET maxAge == IF maxAgeMs = NoNumber THEN DefaultMaxAge ELSE maxAgeMs[1]
           expired == ExpiredSessions(sessions, now, maxAge)
       IN  /\ sessions' = [id \in DOMAIN sessions \ expired |-> sessions[id]]
           /\ removed' = removed \cup expired
           /\ ret' = Returned(Cardinality(expired))
    /\ UNCHANGED <<nodes, nodeOrder, activationHistory, iterationCount, params, now>>

\* The clock new Date() reads moves on by d hours.
Tick(d) ==
    /\ steps < MaxSessionSteps
    /\ call' = [op |-> "tick", d |-> d]
    /\ pre' = Snapshot
    /\ steps' = steps + 1
    /\ now' = now + d
    /\ ret' = Returned(NULL)
    /\ UNCHANGED <<nodes, nodeOrder, activationHistory, iterationCount, params, sessions, removed>>

\* new ConceptNetwork()
Init ==
    /\ nodes = EmptyMap
    /\ nodeOrder = <<>>
    /\ activationHistory = <<>>
    /\ iterationCount = 0
    /\ params = DefaultParams
    /\ call = [op |-> "new"]
    /\ ret = Returned(NULL)
    /\ pre = [nodes |-> EmptyMap, nodeOrder |-> <<>>, activationHistory |-> <<>>,
              iterationCount |-> 0, params |-> DefaultParams,
              sessions |-> EmptyMap, now |-> 0, removed |-> {}]
    /\ steps = 0
    /\ sessions = EmptyMap
    /\ now = 0
    /\ removed = {}

\* The graph-editing methods, called in any order with any arguments.
Next ==
    \/ \E lc \in LabelCategoryArgs, id \in IdArgs : addConcept(lc[1], lc[2], id)
    \/ \E conceptId \in NodeIds : removeConcept(conceptId)
    \/ \E sourceId \in NodeIds, targetId \in NodeIds, weight \in WeightArgs,
          bidirectional \in BOOLEAN :
          addConnection(sourceId, targetId, weight, bidirectional)
    \/ \E sourceId \in NodeIds, targetId \in NodeIds, bidirectional \in BOOLEAN :
          removeConnection(sourceId, targetId, bidirectional)

Spec == Init /\ [][Next]_vars

\* ---------------------------------------------------------------- activation runs

\* Graphs built from the empty network by addConcept and addConnection calls:
\* concepts "a" and "b" with a connection between them; and those two with a
\* third concept of generated id, connected to "a" both ways, with or without
\* a one-way connection from "a" to "b".
BuiltNodes ==
    LET ab == AddConceptNodes(AddConceptNodes(EmptyMap, "a", "x", NULL), "b", "y", "k")
        abc == AddConceptNodes(ab, "u1", "x", NULL)
        star == AddConnectionNodes(abc, "u1", "a", 150, TRUE)
    IN  {AddConnectionNodes(ab, "a", "b", 30, bidirectional) : bidirectional \in BOOLEAN}
        \cup {star, AddConnectionNodes(star, "a", "b", 30, FALSE)}

InitBuilt ==
    /\ nodes \in BuiltNodes
    /\ nodeOrder = IF "u1" \in DOMAIN nodes THEN <<"a", "b", "u1">> ELSE <<"a", "b">>
    /\ activationHistory = <<>>
    /\ iterationCount = 0
    /\ params = DefaultParams
    /\ call = [op |-> "new"]
    /\ ret = Returned(NULL)
    /\ pre = [nodes |-> EmptyMap, nodeOrder |-> <<>>, activationHistory |-> <<>>,
              iterationCount |-> 0, params |-> DefaultParams,
              sessions |-> EmptyMap, now |-> 0, removed |-> {}]
    /\ steps = 0
    /\ sessions = EmptyMap
    /\ now = 0
    /\ removed = {}

\* Seeding and spreading on a built graph, with concepts still coming and going.
NextActivation ==
    \/ \E concepts \in ListSelections, activationValue \in SeedArgs :
          steps < MaxActivationSteps /\ setInitialActivation(concepts, activationValue)
    \/ \E concepts \in MappingSelections \cup MalformedSelections :
          steps < MaxActivationSteps /\ setInitialActivation(concepts, Scale)
    \/ \E decayRate \in DecayArgs :
          steps < MaxActivationSteps /\ spreadActivation(decayRate)
    \/ \E id \in {NULL} :
          steps < MaxActivationSteps /\ addConcept("y", "k", id)
    \/ \E conceptId \in {"b"} :
          steps < MaxActivationSteps /\ removeConcept(conceptId)

SpecActivation == InitBuilt /\ [][NextActivation]_vars

\* The graph-editing methods on a built graph.
NextBuilt ==
    \/ \E lc \in LabelCategoryArgs, id \in IdArgs :
          steps < MaxActivationSteps /\ addConcept(lc[1], lc[2], id)
    \/ \E conceptId \in NodeIds :
          steps < MaxActivationSteps /\ removeConcept(conceptId)
    \/ \E sourceId \in NodeIds, targetId \in NodeIds, weight \in WeightArgs,
          bidirectional \in BOOLEAN :
          steps < MaxActivationSteps
          /\ addConnection(sourceId, targetId, weight, bidirectional)
    \/ \E sourceId \in NodeIds, targetId \in NodeIds, bidirectional \in BOOLEAN :
          steps < MaxActivationSteps /\ removeConnection(sourceId, targetId, bidirectional)

SpecBuilt == InitBuilt /\ [][NextBuilt]_vars

\* ---------------------------------------------------------------- convergence runs

\* The option objects of the runUntilConvergence calls: each option omitted or
\* given, 0 included for the threshold and the decay rate.
RunOptions ==
    [maxIterations : {NoNumber, Number(1), Number(3)},
     convergenceThreshold : {NoNumber, Number(0), Number(30)},
     decayRate : {NoNumber, Number(0), Number(50)}]

\* The selections of the seedings before a run.
RunSelections ==
    {[kind |-> "list", ids |-> <<"a">>],
     [kind |-> "mapping", values |-> [k \in {"a", "b"} |-> IF k = "a" THEN 40 ELSE 100]]}

\* The configurations set before a run.
RunParameters ==
    {[k \in {"maxIterations"} |-> 0],
     [k \in {"maxIterations"} |-> 2],
     [k \in {"convergenceThreshold", "decayRate"} |-> IF k = "decayRate" THEN 0 ELSE 60]}

\* Seeding, configuring and running to convergence on a built graph.
NextConvergence ==
    \/ \E concepts \in RunSelections :
          steps < MaxRunSteps /\ setInitialActivation(concepts, Scale)
    \/ \E newParams \in RunParameters :
          steps < MaxRunSteps /\ setParameters(newParams)
    \/ \E options \in RunOptions :
          steps < MaxRunSteps /\ runUntilConvergence(options)

SpecConvergence == InitBuilt /\ [][NextConvergence]_vars

\* ---------------------------------------------------------------- configuration

\* The values the setParameters calls supply.
ParamValueArgs == {20, 60}

\* The arguments of the setParameters calls: any set of configuration keys, one
\* value for all of them.
ParameterArgs ==
    UNION {[keys -> {value}] : keys \in SUBSET ParamKeys, value \in ParamValueArgs}

NextParameters ==
    \E newParams \in ParameterArgs :
        steps < MaxParameterCalls /\ setParameters(newParams)

SpecParameters == Init /\ [][NextParameters]_vars

\* ---------------------------------------------------------------- ranking queries

\* The seedings before a query: a mapping over any of the caller's ids.
QuerySelections == {concepts \in MappingSelections : DOMAIN concepts.values \subseteq CallerIds}

\* The limits and thresholds of the queries, each omitted or given.
LimitArgs == {NoNumber, Number(0), Number(1), Number(2)}
ThresholdArgs == {NoNumber, Number(0), Number(40)}

\* Seeding, spreading, configuring and ranking on a built graph.
NextQuery ==
    \/ \E concepts \in QuerySelections :
          steps < MaxQuerySteps /\ setInitialActivation(concepts, Scale)
    \/ \E decayRate \in {NoNumber} :
          steps < MaxQuerySteps /\ spreadActivation(decayRate)
    \/ \E value \in ParamValueArgs :
          steps < MaxQuerySteps /\ setParameters([k \in {"activationThreshold"} |-> value])
    \/ \E limit \in LimitArgs, threshold \in ThresholdArgs :
          steps < MaxQuerySteps /\ getTopActivatedConcepts(limit, threshold)

SpecQuery == InitBuilt /\ [][NextQuery]_vars

\* ---------------------------------------------------------------- analysis

\* The built graphs with their concepts added in any order.
InitBuiltAnyOrder ==
    /\ nodes \in BuiltNodes
    /\ nodeOrder \in {order \in SeqsUpTo(NodeIds, Cardinality(NodeIds)) :
                        /\ Len(order) = Cardinality(DOMAIN nodes)
                        /\ {order[i] : i \in 1..Len(order)} = DOMAIN nodes}
    /\ activationHistory = <<>>
    /\ iterationCount = 0
    /\ params = DefaultParams
    /\ call = [op |-> "new"]
    /\ ret = Returned(NULL)
    /\ pre = [nodes |-> EmptyMap, nodeOrder |-> <<>>, activationHistory |-> <<>>,
              iterationCount |-> 0, params |-> DefaultParams,
              sessions |-> EmptyMap, now |-> 0, removed |-> {}]
    /\ steps = 0
    /\ sessions = EmptyMap
    /\ now = 0
    /\ removed = {}

\* Seeding, spreading and querying on a graph built in any order.
NextAnalysis ==
    \/ \E concepts \in QuerySelections :
          steps < MaxAnalysisSteps /\ setInitialActivation(concepts, Scale)
    \/ \E decayRate \in {NoNumber} :
          steps < MaxAnalysisSteps /\ spreadActivation(decayRate)
    \/ \E limit \in LimitArgs, threshold \in ThresholdArgs :
          steps < MaxAnalysisSteps /\ getTopActivatedConcepts(limit, threshold)
    \/ \E threshold \in ThresholdArgs :
          steps < MaxAnalysisSteps /\ identifyEmergentPatterns(threshold)

SpecAnalysis == InitBuiltAnyOrder /\ [][NextAnalysis]_vars

\* ---------------------------------------------------------------- engine runs

\* Seed values of any size: 1, 50 and -1000.
EngineSeedArgs == {Scale, 50 * Scale, -1000 * Scale}

\* The selections of the engine runs: a list, a mapping with a large value, and
\* the malformed ones.
EngineSelections ==
    {[kind |-> "list", ids |-> <<"a">>],
     [kind |-> "mapping", values |-> [k \in {"a", "b"} |-> IF k = "a" THEN 50 * Scale ELSE 40]]}
    \cup MalformedSelections

\* The options of the engine runs: none, or all three.
EngineOptions ==
    {[maxIterations |-> NoNumber, convergenceThreshold |-> NoNumber, decayRate |-> NoNumber],
     [maxIterations |-> Number(2), convergenceThreshold |-> Number(30),
      decayRate |-> Number(50)]}

\* The three operations of the activation engine on a built graph.
NextEngine ==
    \/ \E concepts \in EngineSelections, activationValue \in EngineSeedArgs :
          steps < MaxEngineSteps /\ setInitialActivation(concepts, activationValue)
    \/ \E decayRate \in DecayArgs :
          steps < MaxEngineSteps /\ spreadActivation(decayRate)
    \/ \E options \in EngineOptions :
          steps < MaxEngineSteps /\ runUntilConvergence(options)

SpecEngine == InitBuilt /\ [][NextEngine]_vars

\* ---------------------------------------------------------------- tool calls

\* createSession without default concepts.
NoDefaultConcepts == [kind |-> "null"]

\* Sessions created and configured through the set_parameters tool.
NextTools ==
    \/ \E name \in {NULL} :
          steps < MaxToolSteps /\ createSession(name, NoDefaultConcepts)
    \/ \E sessionId \in SessionIds, args \in ParameterArgs :
          steps < MaxToolSteps /\ setParametersTool(sessionId, args)

SpecTools == Init /\ [][NextTools]_vars

\* ---------------------------------------------------------------- session creation

\* The connections of a default concept: none, or one to "a" or "b", without a
\* weight or with one above 1.
ConnectionsArgs ==
    {<<>>}
    \cup {<<[targetId |-> targetId, weight |-> NoNumber]>> : targetId \in CallerIds}
    \cup {<<[targetId |-> "b", weight |-> Number(150)]>>}

\* The entries of a defaultConcepts object: a key, the empty string included,
\* and its conceptData.
DefaultConceptEntries ==
    {<<conceptId, [label |-> "x", category |-> NULL, connections |-> connections]>> :
        conceptId \in CallerIds \cup {EmptyId}, connections \in ConnectionsArgs}

\* The defaultConcepts arguments: null, or an object of up to two entries with
\* different keys.
DefaultConceptsArgs ==
    {NoDefaultConcepts}
    \cup {[kind |-> "object", entries |-> entries] :
            entries \in {es \in SeqsUpTo(DefaultConceptEntries, 2) :
                           \A i \in 1..Len(es) : \A j \in 1..Len(es) :
                               i # j => es[i][1] # es[j][1]}}

NextCreateSession ==
    \E name \in {NULL, "n"}, defaultConcepts \in DefaultConceptsArgs :
        /\ steps < MaxCreateCalls
        /\ name = NULL \/ defaultConcepts = NoDefaultConcepts
        /\ createSession(name, defaultConcepts)

SpecCreateSession == Init /\ [][NextCreateSession]_vars

\* ---------------------------------------------------------------- session lifetime

\* Hours the clock moves in one step: one hour, or the default maximum age.
TickArgs == {1, DefaultMaxAge}

\* The maxAgeMs arguments: omitted, zero, one hour.
MaxAgeArgs == {NoNumber, Number(0), Number(1)}

NextSessions ==
    \/ createSession(NULL, NoDefaultConcepts)
    \/ \E sessionId \in SessionIds : getSession(sessionId)
    \/ \E sessionId \in SessionIds : getNetwork(sessionId)
    \/ \E sessionId \in SessionIds : deleteSession(sessionId)
    \/ getAllSessions
    \/ \E maxAgeMs \in MaxAgeArgs : cleanupSessions(maxAgeMs)
    \/ \E d \in TickArgs : Tick(d)

SpecSessions == Init /\ [][NextSessions]_vars

\* ---------------------------------------------------------------- properties

\* The directed edge sourceId -> targetId is stored in ns.
EdgeExists(ns, sourceId, targetId) ==
    sourceId \in DOMAIN ns /\ targetId \in DOMAIN ns[sourceId].connections

\* What a weight argument is stored as, according to the specification.
Clamped(weight) == IF weight < 0 THEN 0 ELSE IF weight > Scale THEN Scale ELSE weight

\* The ids a list or mapping selection names.
NamedIds(concepts) ==
    IF concepts.kind = "list" THEN {concepts.ids[i] : i \in 1..Len(concepts.ids)}
    ELSE IF concepts.kind = "mapping" THEN DOMAIN concepts.values
    ELSE {}

\* The seed value of a named id: the call's value for a list, the id's own for a mapping.
SeedValue(concepts, activationValue, id) ==
    IF concepts.kind = "list" THEN activationValue ELSE concepts.values[id]

\* The last call was setInitialActivation with a list or a mapping.
Seeded == call.op = "setInitialActivation" /\ call.concepts.kind \in {"list", "mapping"}

\* C1: after any sequence of addConcept, removeConcept, addConnection and
\* removeConnection calls every edge target is the id of a node of the graph, and
\* right after removeConcept(x) returned true no remaining node has an edge to x.
C1_EdgeTargetsExist ==
    /\ \A k \in DOMAIN nodes : DOMAIN nodes[k].connections \subseteq DOMAIN nodes
    /\ (call.op = "removeConcept" /\ ret.value = TRUE)
         => \A k \in DOMAIN nodes : call.conceptId \notin DOMAIN nodes[k].connections

\* C1 witness: removeConcept(x) returned true and a remaining node had an edge to x.
C1_Witness ==
    /\ call.op = "removeConcept"
    /\ ret.value = TRUE
    /\ \E k \in DOMAIN nodes : call.conceptId \in DOMAIN pre.nodes[k].connections

\* C2: addConnection with a missing source or target throws NotFound and leaves
\* the graph as it was, in both directions, also when bidirectional is true and
\* only one endpoint is missing.
C2_MissingEndpointIsNotFound ==
    (/\ call.op = "addConnection"
     /\ (call.sourceId \notin DOMAIN pre.nodes \/ call.targetId \notin DOMAIN pre.nodes))
    => /\ ret = Threw("NotFound")
       /\ nodes = pre.nodes
       /\ nodeOrder = pre.nodeOrder

\* C2 witness: a bidirectional addConnection whose source exists and whose target
\* does not.
C2_Witness ==
    /\ call.op = "addConnection"
    /\ call.bidirectional
    /\ call.sourceId \in DOMAIN pre.nodes
    /\ call.targetId \notin DOMAIN pre.nodes
    /\ ret = Threw("NotFound")

\* C3: addConcept(label, category, id) with an id that is present throws
\* IdCollision and changes nothing; with an id that is not present it adds exactly
\* one node with that id, activation 0, previousActivation 0 and no edges, and
\* returns that id.
C3_AddConceptWithId ==
    (call.op = "addConcept" /\ call.id # NULL)
    => IF call.id \in DOMAIN pre.nodes
       THEN /\ ret = Threw("IdCollision")
            /\ nodes = pre.nodes
            /\ nodeOrder = pre.nodeOrder
       ELSE /\ ret = Returned(call.id)
            /\ DOMAIN nodes = DOMAIN pre.nodes \cup {call.id}
            /\ nodes[call.id].id = call.id
            /\ nodes[call.id].label = call.label
            /\ nodes[call.id].category = call.category
            /\ nodes[call.id].activation = 0
            /\ nodes[call.id].prevActivation = 0
            /\ nodes[call.id].connections = EmptyMap
            /\ \A k \in DOMAIN pre.nodes : nodes[k] = pre.nodes[k]

\* C4: removeConcept(id) returns false and changes nothing when id is absent;
\* when id is present it returns true, removes exactly that node, and changes no
\* other node except by deleting its edge to id.
C4_RemoveConcept ==
    call.op = "removeConcept"
    => IF call.conceptId \notin DOMAIN pre.nodes
       THEN /\ ret.value = FALSE
            /\ nodes = pre.nodes
            /\ nodeOrder = pre.nodeOrder
       ELSE /\ ret.value = TRUE
            /\ DOMAIN nodes = DOMAIN pre.nodes \ {call.conceptId}
            /\ \A k \in DOMAIN nodes :
                 /\ nodes[k].label = pre.nodes[k].label
                 /\ nodes[k].category = pre.nodes[k].category
                 /\ nodes[k].activation = pre.nodes[k].activation
                 /\ nodes[k].prevActivation = pre.nodes[k].prevActivation
                 /\ nodes[k].metadata = pre.nodes[k].metadata
                 /\ DOMAIN nodes[k].connections
                      = DOMAIN pre.nodes[k].connections \ {call.conceptId}
                 /\ \A t \in DOMAIN nodes[k].connections :
                      nodes[k].connections[t] = pre.nodes[k].connections[t]

\* C4 witness: a present concept was removed while a remaining node had an edge
\* to it and keeps an edge to another node.
C4_Witness ==
    /\ call.op = "removeConcept"
    /\ ret.value = TRUE
    /\ \E k \in DOMAIN nodes :
         /\ call.conceptId \in DOMAIN pre.nodes[k].connections
         /\ DOMAIN nodes[k].connections # {}

\* C5: every stored weight lies in [0,1]; addConnection stores 0 for a weight
\* below 0, 1 for a weight above 1 and the weight itself otherwise, and throws
\* only for a missing endpoint, never for the weight.
C5_WeightsClamped ==
    /\ \A k \in DOMAIN nodes : \A t \in DOMAIN nodes[k].connections :
         nodes[k].connections[t] \in 0..Scale
    /\ call.op = "addConnection"
         => IF ret.kind = "throw"
            THEN call.sourceId \notin DOMAIN pre.nodes \/ call.targetId \notin DOMAIN pre.nodes
            ELSE /\ nodes[call.sourceId].connections[call.targetId] = Clamped(call.weight)
                 /\ call.bidirectional
                      => nodes[call.targetId].connections[call.sourceId] = Clamped(call.weight)

\* C5 witness: addConnection with a weight below 0 stored 0.
C5_Witness ==
    /\ call.op = "addConnection"
    /\ ret.kind = "return"
    /\ call.weight < 0
    /\ nodes[call.sourceId].connections[call.targetId] = 0

\* C6 as claimed: addConnection on a pair that already has an edge replaces the
\* weight and leaves connectionCount unchanged.
C6_ReAddKeepsCount ==
    (/\ call.op = "addConnection"
     /\ ret.kind = "return"
     /\ EdgeExists(pre.nodes, call.sourceId, call.targetId))
    => /\ nodes[call.sourceId].connections[call.targetId] = Clamped(call.weight)
       /\ ConnectionCount(nodes) = ConnectionCount(pre.nodes)

\* C6 as amended: addConnection on a pair that already has an edge replaces the
\* weight; connectionCount is unchanged when bidirectional is false or the reverse
\* edge exists too, and grows by one when bidirectional is true and the reverse
\* edge did not exist; a second call with the same arguments changes nothing.
C6_ReAddOverwrites ==
    (call.op = "addConnection" /\ ret.kind = "return")
    => /\ EdgeExists(pre.nodes, call.sourceId, call.targetId)
            => /\ nodes[call.sourceId].connections[call.targetId] = Clamped(call.weight)
               /\ ConnectionCount(nodes) =
                    ConnectionCount(pre.nodes)
                    + (IF call.bidirectional
                          /\ ~EdgeExists(pre.nodes, call.targetId, call.sourceId)
                       THEN 1 ELSE 0)
       /\ AddConnectionNodes(nodes, call.sourceId, call.targetId, call.weight,
                             call.bidirectional) = nodes

\* C6 witness: an existing edge was given a different weight.
C6_Witness ==
    /\ call.op = "addConnection"
    /\ ret.kind = "return"
    /\ EdgeExists(pre.nodes, call.sourceId, call.targetId)
    /\ pre.nodes[call.sourceId].connections[call.targetId]
         # nodes[call.sourceId].connections[call.targetId]

\* C7: removeConnection never throws and returns true exactly when the edge
\* source -> target existed; afterwards that edge is absent, and with
\* bidirectional the edge target -> source is absent too, whether or not the
\* primary edge existed and whether or not source is a node.
C7_RemoveConnection ==
    call.op = "removeConnection"
    => /\ ret.kind = "return"
       /\ ret.value = EdgeExists(pre.nodes, call.sourceId, call.targetId)
       /\ ~EdgeExists(nodes, call.sourceId, call.targetId)
       /\ call.bidirectional => ~EdgeExists(nodes, call.targetId, call.sourceId)

\* C7 witness: a bidirectional removeConnection returned false and removed the
\* reverse edge.
C7_Witness ==
    /\ call.op = "removeConnection"
    /\ call.bidirectional
    /\ ret.value = FALSE
    /\ EdgeExists(pre.nodes, call.targetId, call.sourceId)
    /\ ~EdgeExists(nodes, call.targetId, call.sourceId)

\* C8: after setInitialActivation returns, every node has previousActivation 0,
\* every node the selection does not name has activation 0, and every named node
\* has its seed value.
C8_SeedResetsAll ==
    (Seeded /\ ret.kind = "return")
    => \A k \in DOMAIN nodes :
         /\ nodes[k].prevActivation = 0
         /\ nodes[k].activation =
              IF k \in NamedIds(call.concepts)
              THEN SeedValue(call.concepts, call.activationValue, k)
              ELSE 0

\* C9: after a setInitialActivation call that returns, however many rounds were
\* recorded before, the history holds exactly one entry, with round index 0 and a
\* snapshot that lists every node once with its activation after seeding.
C9_ReseedRestartsHistory ==
    (call.op = "setInitialActivation" /\ ret.kind = "return")
    => /\ Len(activationHistory) = 1
       /\ activationHistory[1].iteration = 0
       /\ LET snapshot == activationHistory[1].activations
          IN  /\ Len(snapshot) = Cardinality(DOMAIN nodes)
              /\ {snapshot[i].id : i \in 1..Len(snapshot)} = DOMAIN nodes
              /\ \A i \in 1..Len(snapshot) :
                   snapshot[i].activation = nodes[snapshot[i].id].activation

\* C9 witness: a reseed after at least two recorded rounds, leaving a node active.
C9_Witness ==
    /\ call.op = "setInitialActivation"
    /\ ret.kind = "return"
    /\ Len(pre.activationHistory) >= 2
    /\ \E k \in DOMAIN nodes : nodes[k].activation # 0

\* C10: setInitialActivation with a selection naming ids that are no nodes
\* returns, creates no node, and still seeds every named id that is a node.
C10_UnknownIdsSkipped ==
    (Seeded /\ ~(NamedIds(call.concepts) \subseteq DOMAIN pre.nodes))
    => /\ ret.kind = "return"
       /\ DOMAIN nodes = DOMAIN pre.nodes
       /\ nodeOrder = pre.nodeOrder
       /\ \A k \in NamedIds(call.concepts) \cap DOMAIN nodes :
            nodes[k].activation = SeedValue(call.concepts, call.activationValue, k)

\* C10 witness: a list names an id that is no node and, after it, one that is.
C10_Witness ==
    /\ Seeded
    /\ call.concepts.kind = "list"
    /\ Len(call.concepts.ids) = 2
    /\ call.concepts.ids[1] \notin DOMAIN pre.nodes
    /\ call.concepts.ids[2] \in DOMAIN nodes
    /\ nodes[call.concepts.ids[2]].activation = call.activationValue

\* C11: setInitialActivation with a selection that is neither a list nor a
\* mapping throws InvalidSelection and leaves every node's activation and the
\* history as they were before the call.
C11_MalformedSelectionRejected ==
    (call.op = "setInitialActivation" /\ call.concepts \in MalformedSelections)
    => /\ ret = Threw("InvalidSelection")
       /\ \A k \in DOMAIN nodes : nodes[k].activation = pre.nodes[k].activation
       /\ activationHistory = pre.activationHistory

\* The sum of f over the set S of its arguments.
RECURSIVE SumOver(_, _)
SumOver(f, S) ==
    IF S = {} THEN 0
    ELSE LET x == CHOOSE x \in S : TRUE IN f[x] + SumOver(f, S \ {x})

\* The decay rate of a spreadActivation call: the argument, or the configured
\* rate when there is none.
DecayOf(decayRate, ps) == IF decayRate # NoNumber THEN decayRate[1] ELSE ps.decayRate

\* next(n): the squashed sum of n's decayed activation and, over n's own edges
\* to nodes of the graph, weight times the target's activation, all read from
\* the graph `before`.
SynchronousNext(before, n, decay) ==
    LET targets == DOMAIN before[n].connections \cap DOMAIN before
    IN  Sigmoid(before[n].activation * (Scale - decay)
                + SumOver([t \in targets |-> before[t].activation * before[n].connections[t]],
                          targets))

\* C12: after a spreadActivation round every node's activation is next(n)
\* computed from the activations all nodes had before the round, whatever the
\* order of the visit, and every node's previousActivation is the activation it
\* had before the round.
C12_SynchronousRound ==
    call.op = "spreadActivation"
    => /\ DOMAIN nodes = DOMAIN pre.nodes
       /\ \A n \in DOMAIN nodes :
            /\ nodes[n].activation
                 = SynchronousNext(pre.nodes, n, DecayOf(call.decayRate, pre.params))
            /\ nodes[n].prevActivation = pre.nodes[n].activation

\* C12 witness: a round in which a node read, over an edge, a nonzero
\* activation that the same round changed.
C12_Witness ==
    /\ call.op = "spreadActivation"
    /\ \E n \in DOMAIN nodes : \E t \in DOMAIN pre.nodes[n].connections \cap DOMAIN nodes :
         /\ t # n
         /\ pre.nodes[n].connections[t] > 0
         /\ pre.nodes[t].activation # 0
         /\ nodes[t].activation # pre.nodes[t].activation
         /\ nodes[n].prevActivation # 0

\* C13: the next activation of a node n is the same in two graphs that differ
\* only in the activation of a node m that n has no edge to: the round's result
\* for n equals the one computed on the graph before the round with m's
\* activation replaced by any other value.
C13_OnlyOwnEdgesMatter ==
    call.op = "spreadActivation"
    => \A n \in DOMAIN pre.nodes :
         \A m \in DOMAIN pre.nodes \ ({n} \cup DOMAIN pre.nodes[n].connections) :
           \A v \in SeedArgs \cup {0} :
             NewActivations([pre.nodes EXCEPT ![m].activation = v],
                            DecayOf(call.decayRate, pre.params))[n]
               = nodes[n].activation

\* C13 witness: a round on a graph where an active node m has a one-way edge
\* of positive weight into a node n.
C13_Witness ==
    /\ call.op = "spreadActivation"
    /\ \E n \in DOMAIN pre.nodes : \E m \in DOMAIN pre.nodes \ {n} :
         /\ n \in DOMAIN pre.nodes[m].connections
         /\ pre.nodes[m].connections[n] > 0
         /\ m \notin DOMAIN pre.nodes[n].connections
         /\ pre.nodes[m].activation # 0

\* The ids the first history entry lists: the nodes there were at the last seeding.
SeededIds(history) == {history[1].activations[i].id : i \in 1..Len(history[1].activations)}

\* C14: the totalDelta a spreadActivation round returns is the sum, over all
\* nodes in the graph, of the absolute difference between the node's activation
\* after the round and before it; nodes added after the last seeding count too.
C14_TotalDeltaIsL1 ==
    call.op = "spreadActivation"
    => ret.value.totalDelta
         = SumOver([k \in DOMAIN nodes |-> Abs(nodes[k].activation - pre.nodes[k].activation)],
                   DOMAIN nodes)

\* C14 witness: a round after a seeding, on a graph with a node added since, in
\* which one activation fell and another rose.
C14_Witness ==
    /\ call.op = "spreadActivation"
    /\ Len(pre.activationHistory) >= 1
    /\ pre.activationHistory[1].iteration = 0
    /\ DOMAIN nodes \ SeededIds(pre.activationHistory) # {}
    /\ \E k \in DOMAIN nodes : nodes[k].activation < pre.nodes[k].activation
    /\ \E k \in DOMAIN nodes : nodes[k].activation > pre.nodes[k].activation

\* The sequence s begins with the sequence p.
IsPrefix(p, s) == Len(p) <= Len(s) /\ SubSeq(s, 1, Len(p)) = p

\* C15: in every reachable state the i-th history entry, counting from 0, has
\* round index i; a spreadActivation call appends exactly one entry, leaves the
\* earlier entries as they were and returns the index of the entry it appended;
\* no call other than setInitialActivation removes or changes an entry.
C15_HistoryAppendOnly ==
    /\ \A i \in 1..Len(activationHistory) : activationHistory[i].iteration = i - 1
    /\ call.op = "spreadActivation"
         => /\ Len(activationHistory) = Len(pre.activationHistory) + 1
            /\ IsPrefix(pre.activationHistory, activationHistory)
            /\ ret.value.iteration = Len(activationHistory) - 1
            /\ activationHistory[Len(activationHistory)].iteration = ret.value.iteration
    /\ call.op \notin {"new", "setInitialActivation"}
         => IsPrefix(pre.activationHistory, activationHistory)

\* C15 witness: a spreadActivation round appended the third entry to a history
\* that began with a seeding.
C15_Witness ==
    /\ call.op = "spreadActivation"
    /\ Len(pre.activationHistory) = 2
    /\ Len(activationHistory) = 3
    /\ ret.value.iteration = 2

\* The last call was runUntilConvergence.
Ran == call.op = "runUntilConvergence"

\* The rounds the last call performed: the entries it appended to the history.
RoundsPerformed == Len(activationHistory) - Len(pre.activationHistory)

\* C16: a runUntilConvergence call returns; it performs at most as many
\* spreadActivation rounds as the maxIterations in effect for the call, reports
\* as iterations the number of rounds it performed, and appends exactly that
\* many entries to the history.
C16_RunIsBounded ==
    Ran
    => /\ ret.kind = "return"
       /\ IsPrefix(pre.activationHistory, activationHistory)
       /\ iterationCount - pre.iterationCount = RoundsPerformed
       /\ RoundsPerformed <= EffectiveConfig(call.options, pre.params).maxIterations
       /\ ret.value.iterations = RoundsPerformed

\* C16 witness: a run that used up a maxIterations of 3 without converging.
C16_Witness ==
    /\ Ran
    /\ EffectiveConfig(call.options, pre.params).maxIterations = 3
    /\ ret.value.iterations = 3
    /\ ~ret.value.converged

\* The total change between two lists of (id, activation) over the same nodes.
SnapshotDelta(before, after) ==
    SumOver([i \in 1..Len(after) |-> Abs(after[i].activation - before[i].activation)],
            1..Len(after))

\* The totalDelta of the j-th round of the last call, read off the history: the
\* change from the activations before that round to the entry the round appended.
RoundDelta(j) ==
    LET first == Len(pre.activationHistory)
    IN  SnapshotDelta(IF j = 1 THEN ActivationSnapshot(pre.nodes, pre.nodeOrder)
                      ELSE activationHistory[first + j - 1].activations,
                      activationHistory[first + j].activations)

\* C17: a runUntilConvergence call runs no round after the first one whose
\* totalDelta is at most the convergence threshold; converged is true exactly
\* when the totalDelta of the last round performed is at most the threshold, and
\* finalDelta is that totalDelta; with a maxIterations of at least 1 at least one
\* round is performed.
C17_StopsAtFirstConvergedRound ==
    Ran
    => LET config == EffectiveConfig(call.options, pre.params)
       IN  /\ \A j \in 1..(RoundsPerformed - 1) : RoundDelta(j) > config.convergenceThreshold
           /\ RoundsPerformed >= 1
                => /\ ret.value.converged
                        = (RoundDelta(RoundsPerformed) <= config.convergenceThreshold)
                   /\ ret.value.finalDelta = Number(RoundDelta(RoundsPerformed))
           /\ config.maxIterations >= 1 => RoundsPerformed >= 1

\* C17 witness: a run that converged in its second round, before its
\* maxIterations.
C17_Witness ==
    /\ Ran
    /\ RoundsPerformed = 2
    /\ EffectiveConfig(call.options, pre.params).maxIterations > 2
    /\ ret.value.converged
    /\ RoundDelta(1) > EffectiveConfig(call.options, pre.params).convergenceThreshold

\* The value of an option as the specification has it: the caller's value when
\* there is one, the configured value otherwise.
SuppliedOr(option, configured) == IF option # NoNumber THEN option[1] ELSE configured

\* The options the caller supplied are all within their valid ranges.
ValidOptions(options) ==
    /\ options.maxIterations # NoNumber => options.maxIterations[1] >= 1
    /\ options.convergenceThreshold # NoNumber => options.convergenceThreshold[1] >= 0
    /\ options.decayRate # NoNumber => options.decayRate[1] \in 0..Scale

\* C18: in a runUntilConvergence call every option the caller supplies within
\* its valid range is the value used, and only an omitted option takes the
\* configured value: the network and the result after the call are those of the
\* loop run with the supplied maxIterations, convergenceThreshold and decayRate.
C18_SuppliedOptionsAreUsed ==
    (Ran /\ ValidOptions(call.options))
    => LET config == [maxIterations |->
                          SuppliedOr(call.options.maxIterations, pre.params.maxIterations),
                      convergenceThreshold |->
                          SuppliedOr(call.options.convergenceThreshold,
                                     pre.params.convergenceThreshold),
                      decayRate |-> SuppliedOr(call.options.decayRate, pre.params.decayRate)]
           exit == RunUntilConvergenceExit(pre.nodes, pre.activationHistory,
                                           pre.iterationCount, pre.nodeOrder, config)
       IN  /\ nodes = exit.nodes
           /\ activationHistory = exit.activationHistory
           /\ ret = Returned(ConvergenceResult(exit, config))

\* C19: a new network has the configuration {activationThreshold 0.7,
\* decayRate 0.1, maxIterations 5, convergenceThreshold 0.01}; after
\* setParameters(params) every key of params has the supplied value and every
\* other configuration key has the value it had before the call.
C19_SetParametersMerges ==
    /\ call.op = "new"
         => params = [activationThreshold |-> 70, decayRate |-> 10,
                      maxIterations |-> 5, convergenceThreshold |-> 1]
    /\ call.op = "setParameters"
         => /\ DOMAIN params = DOMAIN pre.params \cup DOMAIN call.params
            /\ \A k \in DOMAIN call.params : params[k] = call.params[k]
            /\ \A k \in DOMAIN pre.params \ DOMAIN call.params : params[k] = pre.params[k]

\* C19 witness: a setParameters call that changed one key and left out a key
\* which an earlier call had moved off its default.
C19_Witness ==
    /\ call.op = "setParameters"
    /\ \E k \in DOMAIN call.params : params[k] # pre.params[k]
    /\ \E k \in ParamKeys \ DOMAIN call.params :
         /\ pre.params[k] # DefaultParams[k]
         /\ params[k] = pre.params[k]

\* C20: getTopActivatedConcepts(limit, threshold) with limit >= 0 returns at
\* most limit entries; every entry is a node of the graph with its activation,
\* which is at least the threshold (the configured activationThreshold when the
\* threshold is omitted); the entries are in non-increasing order of activation;
\* and no node left out that meets the threshold has an activation above that of
\* a returned node.
C20_TopActivated ==
    call.op = "getTopActivatedConcepts"
    => LET limit == IF call.limit # NoNumber THEN call.limit[1] ELSE 10
           threshold == IF call.threshold # NoNumber THEN call.threshold[1]
                        ELSE pre.params.activationThreshold
           top == ret.value
           returned == {top[i].id : i \in 1..Len(top)}
       IN  /\ Len(top) <= limit
           /\ \A i \in 1..Len(top) :
                /\ top[i].id \in DOMAIN nodes
                /\ top[i].activation = nodes[top[i].id].activation
                /\ top[i].activation >= threshold
           /\ \A i \in 1..Len(top) : \A j \in i..Len(top) :
                top[i].activation >= top[j].activation
           /\ \A k \in DOMAIN nodes \ returned :
                nodes[k].activation >= threshold
                  => \A i \in 1..Len(top) : nodes[k].activation <= top[i].activation

\* C20 witness: a query that returned a node ranked above one that comes before
\* it in the graph, and left out a node that meets the threshold.
C20_Witness ==
    /\ call.op = "getTopActivatedConcepts"
    /\ call.limit # NoNumber
    /\ Len(ret.value) = call.limit[1]
    /\ \E i \in 1..Len(ret.value) : \E k \in DOMAIN nodes :
         /\ k \notin {ret.value[j].id : j \in 1..Len(ret.value)}
         /\ nodes[k].activation > 0
         /\ nodes[k].activation
              >= (IF call.threshold # NoNumber THEN call.threshold[1]
                  ELSE pre.params.activationThreshold)
         /\ nodes[k].activation < ret.value[i].activation
         /\ \E a \in 1..Len(nodeOrder) : \E b \in 1..Len(nodeOrder) :
              nodeOrder[a] = k /\ nodeOrder[b] = ret.value[i].id /\ a < b

\* The ids in ascending order, as strings compare.
SortedIds == <<"a", "b", "u1">>

\* Id x comes before id y in ascending order.
IdBefore(x, y) ==
    \E i \in 1..Len(SortedIds) : \E j \in 1..Len(SortedIds) :
        SortedIds[i] = x /\ SortedIds[j] = y /\ i < j

AddedBefore(x, y) ==
    \E i \in 1..Len(nodeOrder) : \E j \in 1..Len(nodeOrder) :
        nodeOrder[i] = x /\ nodeOrder[j] = y /\ i < j

Clustered == call.op = "identifyEmergentPatterns"
ClusterThreshold ==
    IF call.threshold # NoNumber THEN call.threshold[1] ELSE pre.params.activationThreshold

\* The nodes at or above the threshold of the last call.
ActiveSet == {k \in DOMAIN nodes : nodes[k].activation >= ClusterThreshold}

\* The ids of the i-th pattern returned.
Members(i) == {ret.value[i].concepts[j].id : j \in 1..Len(ret.value[i].concepts)}

\* C22: the patterns identifyEmergentPatterns returns partition the active set:
\* every node at or above the threshold is in exactly one pattern and listed
\* once in it, no node below the threshold is in any pattern, no pattern is
\* empty, and the list is empty exactly when no node meets the threshold.
C22_PatternsPartitionActiveSet ==
    Clustered
    => LET patterns == ret.value
       IN  /\ \A k \in ActiveSet :
                Cardinality({i \in 1..Len(patterns) : k \in Members(i)}) = 1
           /\ \A i \in 1..Len(patterns) :
                /\ Members(i) \subseteq ActiveSet
                /\ Len(patterns[i].concepts) > 0
                /\ Cardinality(Members(i)) = Len(patterns[i].concepts)
           /\ (patterns = <<>>) <=> (ActiveSet = {})

\* C22 witness: a query that returned two patterns on a graph that also has a
\* node below the threshold and a node exactly at it.
C22_Witness ==
    /\ Clustered
    /\ Len(ret.value) = 2
    /\ ActiveSet # DOMAIN nodes
    /\ \E k \in ActiveSet : nodes[k].activation = ClusterThreshold

\* Every edge between two active nodes has its reverse edge.
ActiveEdgesBothWays ==
    \A u \in ActiveSet : \A v \in ActiveSet :
        v \in DOMAIN nodes[u].connections <=> u \in DOMAIN nodes[v].connections

\* The connected component of the set S in the subgraph induced on the active
\* set, edges taken in either direction.
RECURSIVE Component(_)
Component(S) ==
    LET next == S \cup {v \in ActiveSet : \E u \in S :
                           \/ v \in DOMAIN nodes[u].connections
                           \/ u \in DOMAIN nodes[v].connections}
    IN  IF next = S THEN S ELSE Component(next)

\* C23: when every edge between active nodes goes both ways,
\* identifyEmergentPatterns returns one pattern per connected component of the
\* subgraph induced on the active set, each holding exactly the nodes of its
\* component.
C23_PatternsAreComponents ==
    (Clustered /\ ActiveEdgesBothWays)
    => LET components == {Component({k}) : k \in ActiveSet}
       IN  /\ {Members(i) : i \in 1..Len(ret.value)} = components
           /\ Len(ret.value) = Cardinality(components)

\* C23 witness: an active set of two components, one of two nodes joined by a
\* two-way edge and one of a single node, gave two patterns.
C23_Witness ==
    /\ Clustered
    /\ ActiveEdgesBothWays
    /\ Len(ret.value) = 2
    /\ \E i \in 1..2 : Cardinality(Members(i)) = 2

\* C24: every pattern identifyEmergentPatterns returns is closed under the
\* edges of its members: when u is in a pattern and has an edge to a node v at
\* or above the threshold, v is in the same pattern, one-way edges and every
\* insertion order included.
C24_PatternsClosedUnderEdges ==
    Clustered
    => \A i \in 1..Len(ret.value) : \A u \in Members(i) :
         \A v \in DOMAIN nodes[u].connections \cap ActiveSet : v \in Members(i)

\* The sum spreadActivation squashes for node n: its decayed activation plus
\* its incoming activation, read from the graph before the round.
SquashedSum(before, n, decay) ==
    LET targets == DOMAIN before[n].connections \cap DOMAIN before
    IN  before[n].activation * (Scale - decay)
        + SumOver([t \in targets |-> before[t].activation * before[n].connections[t]],
                  targets)

\* C25 as claimed: after a spreadActivation round every node's activation is
\* strictly greater than 0 and strictly less than 1.
C25_ActivationStrictlyInside ==
    call.op = "spreadActivation"
    => \A k \in DOMAIN nodes : 0 < nodes[k].activation /\ nodes[k].activation < Scale

\* C25 as amended: after a spreadActivation round every node's activation is
\* within [0,1]; it is strictly inside (0,1) when the squashed sum is below
\* 36.7369 and not below -709.7827, exactly 1 from 36.7369 on and exactly 0 below
\* -709.7827.
C25_ActivationWithinUnit ==
    call.op = "spreadActivation"
    => \A k \in DOMAIN nodes :
         LET x == SquashedSum(pre.nodes, k, DecayOf(call.decayRate, pre.params))
         IN  /\ 0 <= nodes[k].activation
             /\ nodes[k].activation <= Scale
             /\ (nodes[k].activation = Scale) <=> (x >= 367369)
             /\ (nodes[k].activation = 0) <=> (x < -7097827)

\* C25 witness: a round after a seed of 50 left one node at exactly 1 and
\* another strictly inside (0,1).
C25_Witness ==
    /\ call.op = "spreadActivation"
    /\ \E k \in DOMAIN nodes : nodes[k].activation = Scale /\ pre.nodes[k].activation = 50 * Scale
    /\ \E k \in DOMAIN nodes : 0 < nodes[k].activation /\ nodes[k].activation < Scale

\* The last call was one of the three operations of the activation engine.
EngineCall == call.op \in {"setInitialActivation", "spreadActivation", "runUntilConvergence"}

\* C26: setInitialActivation, spreadActivation and runUntilConvergence leave
\* the set of nodes and its order, every node's id, label, category and
\* metadata, every edge and edge weight, and the configuration as they were;
\* they change only activations, previous activations, the history and the
\* round counter.
C26_EngineFrame ==
    EngineCall
    => /\ DOMAIN nodes = DOMAIN pre.nodes
       /\ nodeOrder = pre.nodeOrder
       /\ params = pre.params
       /\ \A k \in DOMAIN nodes :
            /\ nodes[k].id = pre.nodes[k].id
            /\ nodes[k].label = pre.nodes[k].label
            /\ nodes[k].category = pre.nodes[k].category
            /\ nodes[k].metadata = pre.nodes[k].metadata
            /\ nodes[k].connections = pre.nodes[k].connections

\* C26 witness: a runUntilConvergence call of at least two rounds changed the
\* activation of a node that has an edge, on a network seeded before.
C26_Witness ==
    /\ Ran
    /\ ret.value.iterations >= 2
    /\ Len(pre.activationHistory) >= 1
    /\ \E k \in DOMAIN nodes :
         /\ DOMAIN nodes[k].connections # {}
         /\ nodes[k].activation # pre.nodes[k].activation

\* C27: a set_parameters tool call that supplies only some of the four keys
\* changes only those keys of the session's network: every supplied key has the
\* supplied value and every other key the value it had before the call.
C27_ToolMergesParameters ==
    (call.op = "set_parameters" /\ call.sessionId \in DOMAIN pre.sessions)
    => LET before == pre.sessions[call.sessionId].network.params
           after == sessions[call.sessionId].network.params
       IN  /\ \A k \in DOMAIN call.args : after[k] = call.args[k]
           /\ \A k \in ParamKeys \ DOMAIN call.args : after[k] = before[k]

\* The addConcept and addConnection calls the claim names for a defaultConcepts
\* object: for each entry in order, addConcept and then one bidirectional
\* addConnection per connection of the entry.
RECURSIVE ConnectionCalls(_, _)
ConnectionCalls(conceptId, connections) ==
    IF connections = <<>> THEN <<>>
    ELSE <<[op |-> "addConnection", sourceId |-> conceptId,
            targetId |-> Head(connections).targetId, weight |-> Head(connections).weight]>>
         \o ConnectionCalls(conceptId, Tail(connections))

RECURSIVE ComposedCalls(_)
ComposedCalls(entries) ==
    IF entries = <<>> THEN <<>>
    ELSE <<[op |-> "addConcept", label |-> Head(entries)[2].label,
            category |-> Head(entries)[2].category, id |-> Head(entries)[1]]>>
         \o ConnectionCalls(Head(entries)[1], Head(entries)[2].connections)
         \o ComposedCalls(Tail(entries))

\* The calls made one after another on a network, up to the first that throws.
RECURSIVE MakeCalls(_, _)
MakeCalls(building, calls) ==
    IF building.error # NULL \/ calls = <<>> THEN building
    ELSE LET c == Head(calls)
         IN  MakeCalls(IF c.op = "addConcept"
                       THEN NetworkAddConcept(building.network, c.label, c.category, c.id)
                       ELSE NetworkAddConnection(building.network, c.sourceId, c.targetId,
                                                 c.weight),
                       Tail(calls))

\* C28: createSession with defaultConcepts registers a session whose graph is
\* the one the addConcept and bidirectional addConnection calls build on an
\* empty graph, entry by entry in the object's order; when one of those calls
\* throws, createSession throws and the registered sessions are unchanged.
C28_CreateSessionComposes ==
    (call.op = "createSession" /\ call.defaultConcepts.kind = "object")
    => LET composed == MakeCalls(Building(NewNetwork),
                                 ComposedCalls(call.defaultConcepts.entries))
       IN  IF composed.error # NULL
           THEN /\ ret.kind = "throw"
                /\ ret = Threw(composed.error)
                /\ sessions = pre.sessions
           ELSE /\ ret.kind = "return"
                /\ DOMAIN sessions = DOMAIN pre.sessions \cup {ret.value.sessionId}
                /\ ret.value.sessionId \notin DOMAIN pre.sessions
                /\ sessions[ret.value.sessionId].network = composed.network
                /\ \A id \in DOMAIN pre.sessions : sessions[id] = pre.sessions[id]

\* C28 witness: a createSession whose second concept connects back to the
\* first returned, and the session's graph has both edges.
C28_Witness ==
    /\ call.op = "createSession"
    /\ ret.kind = "return"
    /\ call.defaultConcepts.kind = "object"
    /\ Len(call.defaultConcepts.entries) = 2
    /\ LET ns == sessions[ret.value.sessionId].network.nodes
       IN  /\ EdgeExists(ns, "a", "b")
           /\ EdgeExists(ns, "b", "a")
           /\ ret.value.networkSize.connectionCount = 2

\* C28 witness of the failure: a createSession whose first concept connects to
\* one that comes later in the object threw.
C28_WitnessThrow ==
    /\ call.op = "createSession"
    /\ call.defaultConcepts.kind = "object"
    /\ Len(call.defaultConcepts.entries) = 2
    /\ call.defaultConcepts.entries[1][2].connections # <<>>
    /\ call.defaultConcepts.entries[1][2].connections[1].targetId
         = call.defaultConcepts.entries[2][1]
    /\ ret.kind = "throw"

\* The calls that count as an access of the session they name.
IsAccess == call.op \in {"getSession", "getNetwork"}

\* The sessions whose lastAccessed differs from what it was before the call,
\* among those registered before and after it.
Reaccessed ==
    {id \in DOMAIN sessions \cap DOMAIN pre.sessions :
        sessions[id].lastAccessed # pre.sessions[id].lastAccessed}

\* C29: cleanupSessions(maxAgeMs) removes exactly the sessions whose time since
\* last access exceeds maxAgeMs (24 hours when omitted), keeps every other
\* session as it was and returns the number removed. The last access of a
\* session is the time of its creation or of the latest getSession or
\* getNetwork call for it: those calls set it to the current time, and no
\* other call, getAllSessions included, changes it. A session removed by
\* cleanupSessions or deleteSession is never registered again, and getSession
\* and getNetwork for its id throw the not-found error.
C29_SessionLifetime ==
    /\ call.op = "cleanupSessions"
       => LET maxAge == SuppliedOr(call.maxAgeMs, 24)
              old == {id \in DOMAIN pre.sessions :
                        pre.now - pre.sessions[id].lastAccessed > maxAge}
          IN  /\ DOMAIN sessions = DOMAIN pre.sessions \ old
              /\ \A id \in DOMAIN sessions : sessions[id] = pre.sessions[id]
              /\ ret = Returned(Cardinality(old))
              /\ removed = pre.removed \cup old
    /\ call.op = "createSession" /\ ret.kind = "return"
       => /\ sessions[ret.value.sessionId].lastAccessed = pre.now
          /\ sessions[ret.value.sessionId].createdAt = pre.now
          /\ ret.value.sessionId \notin pre.removed
    /\ IsAccess /\ call.sessionId \in DOMAIN pre.sessions
       => /\ ret.kind = "return"
          /\ sessions[call.sessionId].lastAccessed = pre.now
          /\ Reaccessed \subseteq {call.sessionId}
    /\ ~(IsAccess /\ call.sessionId \in DOMAIN pre.sessions)
       => Reaccessed = {}
    /\ call.op = "deleteSession"
       => /\ DOMAIN sessions = DOMAIN pre.sessions \ {call.sessionId}
          /\ removed = pre.removed \cup ({call.sessionId} \cap DOMAIN pre.sessions)
    /\ call.op \notin {"cleanupSessions", "deleteSession"}
       => removed = pre.removed
    /\ removed \cap DOMAIN sessions = {}
    /\ IsAccess /\ call.sessionId \in pre.removed
       => /\ ret.kind = "throw"
          /\ ret = Threw("SessionNotFound")
          /\ sessions = pre.sessions

\* C29 witness: a cleanup removed a session that had aged past the limit and
\* kept one whose getSession call was more recent, although both were created
\* at the same time.
C29_Witness ==
    /\ call.op = "cleanupSessions"
    /\ ret.kind = "return"
    /\ ret.value = 1
    /\ DOMAIN pre.sessions = SessionIds
    /\ \A id \in SessionIds : pre.sessions[id].createdAt = 0
    /\ Cardinality(DOMAIN sessions) = 1
    /\ removed # {}

\* C29 witness of the later lookup: getSession for an id that cleanupSessions
\* had removed threw.
C29_WitnessNotFound ==
    /\ call.op = "getSession"
    /\ call.sessionId \in pre.removed
    /\ pre.now > 0
    /\ ret.kind = "throw"

====
